---- MODULE Spec2Model ----
(***************************************************************************)
(* Connector adapter framework of hyperswitch: the Adyen and Bank of       *)
(* America transformers.  One payment attempt (a RouterData) receives      *)
(* connector responses and webhook deliveries; each is put in flight,      *)
(* consumed by the transformer that parses it, and the parsed status and   *)
(* response are written into the attempt.  The build has the "payouts"     *)
(* feature enabled.                                                        *)
(***************************************************************************)
EXTENDS Integers, Sequences, FiniteSets, TLC

VARIABLES
    connector,          \* the connector the attempt runs against
    is_manual_capture,  \* is_manual_capture(capture_method) of the attempt
    pmt,                \* Option<PaymentMethodType> of the attempt
    status,             \* RouterData.status
    response,           \* RouterData.response: [ok : Option<data>, err : Option<ErrorResponse>]
    inflight,           \* Option<message>: the connector response / webhook being processed
    handled,            \* TRUE once the transformer has consumed the message in flight
    outcome,            \* what the transformer returned: "", "Ok" or a ConnectorError name
    event,              \* the IncomingWebhookEvent the classifier returned ("" when none)
    request,            \* Option<connector request>: what a request transformer built
    payment_intents,    \* MockDb.payment_intents: the Vec<PaymentIntent> behind the mutex
    lock,               \* Option<caller>: who holds the mutex of MockDb.payment_intents
    callers,            \* per MockDb caller: the call it makes, its position and its locals
    intents,            \* payment intents the payments core holds for recovery invoices
    attempts,           \* payment attempts the payments core holds for recovery invoices
    process_tracker,    \* process-tracker entries inserted by the recovery flow
    flows,              \* per recovery webhook: its inputs, its position and its locals
    rx,                 \* messages of the subscribed channel not yet received
    CONFIG_CACHE,       \* keys held by the in-memory config cache
    ACCOUNTS_CACHE,     \* keys held by the in-memory accounts cache
    redis_keys,         \* keys held in Redis
    subscriber          \* the on_message task: its position and the message it works on

attemptVars == <<connector, is_manual_capture, pmt, status, response, inflight, handled, outcome,
                 event, request>>
mockDbVars == <<payment_intents, lock, callers>>
recoveryVars == <<intents, attempts, process_tracker, flows>>
pubSubVars == <<rx, CONFIG_CACHE, ACCOUNTS_CACHE, redis_keys, subscriber>>
backendVars == <<mockDbVars, recoveryVars, pubSubVars>>

vars == <<attemptVars, backendVars>>

----------------------------------------------------------------------------
(* Option<T>: None is the empty tuple, Some(x) the one-element tuple. *)

None == <<>>

Some(x) == <<x>>

is_some(o) == Len(o) > 0

is_none(o) == Len(o) = 0

unwrap_or(o, default) == IF is_some(o) THEN o[1] ELSE default

----------------------------------------------------------------------------
(* The parts of the system that take no step in a specification *)

\* a MockDb nobody calls
MockDbIdle == payment_intents = <<>> /\ lock = None /\ callers = <<>>

\* no recovery webhook in progress
RecoveryIdle == intents = {} /\ attempts = {} /\ process_tracker = {} /\ flows = <<>>

\* no subscription: nothing published, no on_message task
PubSubIdle ==
    /\ rx = <<>> /\ CONFIG_CACHE = {} /\ ACCOUNTS_CACHE = {} /\ redis_keys = {}
    /\ subscriber = [pc |-> "stopped"]

\* no payment attempt at a connector
AttemptIdle ==
    /\ connector = "Adyen" /\ is_manual_capture = FALSE /\ pmt = None /\ status = "Started"
    /\ response = [ok |-> None, err |-> None] /\ inflight = None /\ handled = FALSE
    /\ outcome = "" /\ event = "" /\ request = None

----------------------------------------------------------------------------
(* Vocabularies *)

AdyenStatus ==
    { "AuthenticationFinished", "AuthenticationNotRequired", "Authorised", "Cancelled",
      "ChallengeShopper", "Error", "Pending", "Received", "RedirectShopper", "Refused",
      "PresentToShopper", "PayoutConfirmReceived", "PayoutDeclineReceived",
      "PayoutSubmitReceived" }

AdyenWebhookStatus ==
    { "Authorised", "AuthorisationFailed", "Cancelled", "CancelFailed", "Captured",
      "CaptureFailed", "Reversed", "UnexpectedEvent" }

BankofamericaPaymentStatus ==
    { "Authorized", "Succeeded", "Failed", "Voided", "Reversed", "Pending", "Declined",
      "Rejected", "Challenge", "AuthorizedPendingReview", "AuthorizedRiskDeclined",
      "Transmitted", "InvalidRequest", "ServerError", "PendingAuthentication",
      "PendingReview", "Accepted", "Cancelled" }

AttemptStatus ==
    { "Started", "PaymentMethodAwaited", "ConfirmationAwaited", "Authorizing",
      "AuthenticationPending", "AuthenticationSuccessful", "Pending", "Authorized",
      "Charged", "CaptureFailed", "Voided", "VoidFailed", "Failure" }

TerminalStatus == { "Charged", "Voided", "Failure" }

PaymentMethodTypes == { None, Some("Pix"), Some("Credit") }

NO_ERROR_CODE == "No error code"

NO_ERROR_MESSAGE == "No error message"

HttpCode == 200

----------------------------------------------------------------------------
(* Status normalizers *)

(* mutant: the Authorised arms exchanged *)
get_adyen_payment_status_swapped(manual, adyen_status, pm) ==
    CASE adyen_status = "AuthenticationFinished" -> "AuthenticationSuccessful"
      [] adyen_status \in {"AuthenticationNotRequired", "Received"} -> "Pending"
      [] adyen_status = "Authorised" -> IF manual THEN "Charged" ELSE "Authorized"
      [] adyen_status = "Cancelled" -> "Voided"
      [] adyen_status \in {"ChallengeShopper", "RedirectShopper", "PresentToShopper"} ->
            "AuthenticationPending"
      [] adyen_status \in {"Error", "Refused"} -> "Failure"
      [] adyen_status = "Pending" ->
            IF pm = Some("Pix") THEN "AuthenticationPending" ELSE "Pending"
      [] adyen_status = "PayoutConfirmReceived" -> "Started"
      [] adyen_status = "PayoutSubmitReceived" -> "Pending"
      [] adyen_status = "PayoutDeclineReceived" -> "Voided"

get_adyen_payment_status(manual, adyen_status, pm) ==
    CASE adyen_status = "AuthenticationFinished" -> "AuthenticationSuccessful"
      [] adyen_status \in {"AuthenticationNotRequired", "Received"} -> "Pending"
      [] adyen_status = "Authorised" -> IF manual THEN "Authorized" ELSE "Charged"
      [] adyen_status = "Cancelled" -> "Voided"
      [] adyen_status \in {"ChallengeShopper", "RedirectShopper", "PresentToShopper"} ->
            "AuthenticationPending"
      [] adyen_status \in {"Error", "Refused"} -> "Failure"
      [] adyen_status = "Pending" ->
            IF pm = Some("Pix") THEN "AuthenticationPending" ELSE "Pending"
      [] adyen_status = "PayoutConfirmReceived" -> "Started"
      [] adyen_status = "PayoutSubmitReceived" -> "Pending"
      [] adyen_status = "PayoutDeclineReceived" -> "Voided"

(* Result<AttemptStatus, ConnectorError> of the webhook-status normalizer *)
StatusOk(s) == [ok |-> TRUE, status |-> s, err |-> ""]

StatusErr(e) == [ok |-> FALSE, status |-> "", err |-> e]

(* mutant: the Cancelled arm joins the unexpected events *)
webhook_status_cancelled_unexpected(manual, adyen_webhook_status) ==
    CASE adyen_webhook_status = "Authorised" ->
            IF manual THEN StatusOk("Authorized") ELSE StatusOk("Charged")
      [] adyen_webhook_status = "AuthorisationFailed" -> StatusOk("Failure")
      [] adyen_webhook_status = "CancelFailed" -> StatusOk("VoidFailed")
      [] adyen_webhook_status = "Captured" -> StatusOk("Charged")
      [] adyen_webhook_status = "CaptureFailed" -> StatusOk("CaptureFailed")
      [] adyen_webhook_status \in {"UnexpectedEvent", "Reversed", "Cancelled"} ->
            StatusErr("WebhookBodyDecodingFailed")

webhook_status_to_attempt_status(manual, adyen_webhook_status) ==
    CASE adyen_webhook_status = "Authorised" ->
            IF manual THEN StatusOk("Authorized") ELSE StatusOk("Charged")
      [] adyen_webhook_status = "AuthorisationFailed" -> StatusOk("Failure")
      [] adyen_webhook_status = "Cancelled" -> StatusOk("Voided")
      [] adyen_webhook_status = "CancelFailed" -> StatusOk("VoidFailed")
      [] adyen_webhook_status = "Captured" -> StatusOk("Charged")
      [] adyen_webhook_status = "CaptureFailed" -> StatusOk("CaptureFailed")
      [] adyen_webhook_status \in {"UnexpectedEvent", "Reversed"} ->
            StatusErr("WebhookBodyDecodingFailed")

(* mutant: Succeeded and Transmitted follow the capture mode like Authorized *)
boa_status_settled_by_capture_mode(boa_status, auto_capture) ==
    CASE boa_status \in {"Authorized", "AuthorizedPendingReview", "Succeeded", "Transmitted"} ->
            IF auto_capture THEN "Charged" ELSE "Authorized"
      [] boa_status = "Pending" -> IF auto_capture THEN "Charged" ELSE "Pending"
      [] boa_status \in {"Voided", "Reversed", "Cancelled"} -> "Voided"
      [] boa_status \in {"Failed", "Declined", "AuthorizedRiskDeclined", "InvalidRequest",
                         "Rejected", "ServerError"} -> "Failure"
      [] boa_status = "PendingAuthentication" -> "AuthenticationPending"
      [] boa_status \in {"PendingReview", "Challenge", "Accepted"} -> "Pending"

boa_status_to_attempt_status(boa_status, auto_capture) ==
    CASE boa_status \in {"Authorized", "AuthorizedPendingReview"} ->
            IF auto_capture THEN "Charged" ELSE "Authorized"
      [] boa_status = "Pending" -> IF auto_capture THEN "Charged" ELSE "Pending"
      [] boa_status \in {"Succeeded", "Transmitted"} -> "Charged"
      [] boa_status \in {"Voided", "Reversed", "Cancelled"} -> "Voided"
      [] boa_status \in {"Failed", "Declined", "AuthorizedRiskDeclined", "InvalidRequest",
                         "Rejected", "ServerError"} -> "Failure"
      [] boa_status = "PendingAuthentication" -> "AuthenticationPending"
      [] boa_status \in {"PendingReview", "Challenge", "Accepted"} -> "Pending"

----------------------------------------------------------------------------
(* Canonical response values *)

ErrorResponse(code, message, reason, status_code, attempt_status) ==
    [code |-> code, message |-> message, reason |-> reason,
     status_code |-> status_code, attempt_status |-> attempt_status]

(* PaymentsResponseData; captures is the capture_sync_response_list, a set of *)
(* [capture_id, status] entries keyed by capture id.                          *)
TransactionResponse == [kind |-> "TransactionResponse", captures |-> {}]

MultipleCaptureResponse(list) == [kind |-> "MultipleCaptureResponse", captures |-> list]

NoData == [kind |-> "", captures |-> {}]

(* CustomResult<(AttemptStatus, Option<ErrorResponse>, PaymentsResponseData), ConnectorError> *)
ParseOk(s, error, data) == [ok |-> TRUE, status |-> s, error |-> error, data |-> data, err |-> ""]

ParseErr(e) == [ok |-> FALSE, status |-> "", error |-> None, data |-> NoData, err |-> e]

(* strum Display of AttemptStatus (snake_case) *)
attempt_status_to_string(s) ==
    CASE s = "Started" -> "started"
      [] s = "PaymentMethodAwaited" -> "payment_method_awaited"
      [] s = "ConfirmationAwaited" -> "confirmation_awaited"
      [] s = "Authorizing" -> "authorizing"
      [] s = "AuthenticationPending" -> "authentication_pending"
      [] s = "AuthenticationSuccessful" -> "authentication_successful"
      [] s = "Pending" -> "pending"
      [] s = "Authorized" -> "authorized"
      [] s = "Charged" -> "charged"
      [] s = "CaptureFailed" -> "capture_failed"
      [] s = "Voided" -> "voided"
      [] s = "VoidFailed" -> "void_failed"
      [] s = "Failure" -> "failure"

----------------------------------------------------------------------------
(* Adyen response parsers.  A parsed response carries result_code,          *)
(* refusal_reason, refusal_reason_code (Options) and, for the QR shape,     *)
(* whether QrImage::new_from_data accepts the QR data.                       *)

(* mutant: absent fields fall back to the empty string *)
adyen_refusal_error_no_fallback(refusal_reason, refusal_reason_code, s, status_code) ==
    IF is_some(refusal_reason) \/ is_some(refusal_reason_code) \/ s = "Failure"
    THEN Some(ErrorResponse(unwrap_or(refusal_reason_code, ""),
                            unwrap_or(refusal_reason, ""),
                            refusal_reason, status_code, None))
    ELSE None

(* mutant: a Failure status alone produces no error *)
adyen_refusal_error_only_on_reason(refusal_reason, refusal_reason_code, s, status_code) ==
    IF is_some(refusal_reason) \/ is_some(refusal_reason_code)
    THEN Some(ErrorResponse(unwrap_or(refusal_reason_code, NO_ERROR_CODE),
                            unwrap_or(refusal_reason, NO_ERROR_MESSAGE),
                            refusal_reason, status_code, None))
    ELSE None

adyen_refusal_error(refusal_reason, refusal_reason_code, s, status_code) ==
    IF is_some(refusal_reason) \/ is_some(refusal_reason_code) \/ s = "Failure"
    THEN Some(ErrorResponse(unwrap_or(refusal_reason_code, NO_ERROR_CODE),
                            unwrap_or(refusal_reason, NO_ERROR_MESSAGE),
                            refusal_reason, status_code, None))
    ELSE None

get_adyen_response(resp, manual, status_code, pm) ==
    LET s == get_adyen_payment_status(manual, resp.result_code, pm)
        error == adyen_refusal_error(resp.refusal_reason, resp.refusal_reason_code,
                                     s, status_code)
    IN  ParseOk(s, error, TransactionResponse)

get_redirection_response(resp, manual, status_code, pm) ==
    LET s == get_adyen_payment_status(manual, resp.result_code, pm)
        error == adyen_refusal_error(resp.refusal_reason, resp.refusal_reason_code,
                                     s, status_code)
    IN  ParseOk(s, error, TransactionResponse)

get_present_to_shopper_response(resp, manual, status_code, pm) ==
    LET s == get_adyen_payment_status(manual, resp.result_code, pm)
        error == adyen_refusal_error(resp.refusal_reason, resp.refusal_reason_code,
                                     s, status_code)
    IN  ParseOk(s, error, TransactionResponse)

get_qr_code_response(resp, manual, status_code, pm) ==
    LET s == get_adyen_payment_status(manual, resp.result_code, pm)
        error == adyen_refusal_error(resp.refusal_reason, resp.refusal_reason_code,
                                     s, status_code)
    IN  IF resp.qr_image_ok
        THEN ParseOk(s, error, TransactionResponse)
        ELSE ParseErr("ResponseHandlingFailed")

get_redirection_error_response(resp, manual, status_code, pm) ==
    LET s == get_adyen_payment_status(manual, resp.result_code, pm)
        error == Some(ErrorResponse(attempt_status_to_string(s),
                                    unwrap_or(resp.refusal_reason, NO_ERROR_MESSAGE),
                                    resp.refusal_reason, status_code, None))
    IN  ParseOk(s, error, TransactionResponse)

----------------------------------------------------------------------------
(* Adyen webhooks *)

IncomingWebhookEvent ==
    { "PaymentIntentSuccess", "PaymentIntentFailure", "PaymentIntentCancelled",
      "PaymentIntentCancelFailure", "PaymentIntentCaptureSuccess",
      "PaymentIntentCaptureFailure", "RefundSuccess", "RefundFailure", "DisputeOpened",
      "DisputeChallenged", "DisputeWon", "DisputeLost", "PayoutCreated", "PayoutFailure",
      "PayoutExpired", "PayoutReversed", "EventNotSupported" }

(* serde: SCREAMING_SNAKE_CASE names, every other string is Unknown (serde(other)) *)
deserialize_event_code(raw) ==
    CASE raw = "AUTHORISATION" -> "Authorisation"
      [] raw = "REFUND" -> "Refund"
      [] raw = "CANCEL_OR_REFUND" -> "CancelOrRefund"
      [] raw = "CANCELLATION" -> "Cancellation"
      [] raw = "CAPTURE" -> "Capture"
      [] raw = "CAPTURE_FAILED" -> "CaptureFailed"
      [] raw = "REFUND_FAILED" -> "RefundFailed"
      [] raw = "REFUND_REVERSED" -> "RefundReversed"
      [] raw = "NOTIFICATION_OF_CHARGEBACK" -> "NotificationOfChargeback"
      [] raw = "CHARGEBACK" -> "Chargeback"
      [] raw = "CHARGEBACK_REVERSED" -> "ChargebackReversed"
      [] raw = "SECOND_CHARGEBACK" -> "SecondChargeback"
      [] raw = "PREARBITRATION_WON" -> "PrearbitrationWon"
      [] raw = "PREARBITRATION_LOST" -> "PrearbitrationLost"
      [] raw = "PAYOUT_THIRDPARTY" -> "PayoutThirdparty"
      [] raw = "PAYOUT_DECLINE" -> "PayoutDecline"
      [] raw = "PAYOUT_EXPIRE" -> "PayoutExpire"
      [] raw = "PAYOUT_REVERSED" -> "PayoutReversed"
      [] OTHER -> "Unknown"

is_transaction_event(event_code) == event_code = "Authorisation"

is_capture_or_cancel_event(event_code) ==
    event_code \in {"Capture", "CaptureFailed", "Cancellation"}

is_refund_event(event_code) ==
    event_code \in {"Refund", "CancelOrRefund", "RefundFailed", "RefundReversed"}

is_chargeback_event(event_code) ==
    event_code \in {"NotificationOfChargeback", "Chargeback", "ChargebackReversed",
                    "SecondChargeback", "PrearbitrationWon", "PrearbitrationLost"}

is_payout_event(event_code) ==
    event_code \in {"PayoutThirdparty", "PayoutDecline", "PayoutExpire", "PayoutReversed"}

(* mutant: the comparison negated *)
is_success_scenario_negated(is_success) == is_success # "true"

(* mutant: the flag is not looked at *)
is_success_scenario_ignored(is_success) == TRUE

is_success_scenario(is_success) == is_success = "true"

(* mutant: an unknown event code is taken for a failed payment *)
get_adyen_webhook_event_unknown_as_failure(code, is_success, dispute_status) ==
    CASE code = "Authorisation" ->
            IF is_success_scenario(is_success)
            THEN "PaymentIntentSuccess" ELSE "PaymentIntentFailure"
      [] code \in {"Refund", "CancelOrRefund"} ->
            IF is_success_scenario(is_success) THEN "RefundSuccess" ELSE "RefundFailure"
      [] code = "Cancellation" ->
            IF is_success_scenario(is_success)
            THEN "PaymentIntentCancelled" ELSE "PaymentIntentCancelFailure"
      [] code \in {"RefundFailed", "RefundReversed"} -> "RefundFailure"
      [] code = "NotificationOfChargeback" -> "DisputeOpened"
      [] code = "Chargeback" ->
            CASE dispute_status = Some("Won") -> "DisputeWon"
              [] dispute_status = Some("Lost") \/ dispute_status = None -> "DisputeLost"
              [] OTHER -> "DisputeOpened"
      [] code = "ChargebackReversed" ->
            IF dispute_status = Some("Pending") THEN "DisputeChallenged" ELSE "DisputeWon"
      [] code = "SecondChargeback" -> "DisputeLost"
      [] code = "PrearbitrationWon" ->
            IF dispute_status = Some("Pending") THEN "DisputeOpened" ELSE "DisputeWon"
      [] code = "PrearbitrationLost" -> "DisputeLost"
      [] code = "Capture" ->
            IF is_success_scenario(is_success)
            THEN "PaymentIntentCaptureSuccess" ELSE "PaymentIntentCaptureFailure"
      [] code = "CaptureFailed" -> "PaymentIntentCaptureFailure"
      [] code = "PayoutThirdparty" -> "PayoutCreated"
      [] code = "PayoutDecline" -> "PayoutFailure"
      [] code = "PayoutExpire" -> "PayoutExpired"
      [] code = "PayoutReversed" -> "PayoutReversed"
      [] code = "Unknown" -> "PaymentIntentFailure"

(* mutant: an unmapped Chargeback sub-status counts as lost *)
get_adyen_webhook_event_chargeback_lost(code, is_success, dispute_status) ==
    CASE code = "Authorisation" ->
            IF is_success_scenario(is_success)
            THEN "PaymentIntentSuccess" ELSE "PaymentIntentFailure"
      [] code \in {"Refund", "CancelOrRefund"} ->
            IF is_success_scenario(is_success) THEN "RefundSuccess" ELSE "RefundFailure"
      [] code = "Cancellation" ->
            IF is_success_scenario(is_success)
            THEN "PaymentIntentCancelled" ELSE "PaymentIntentCancelFailure"
      [] code \in {"RefundFailed", "RefundReversed"} -> "RefundFailure"
      [] code = "NotificationOfChargeback" -> "DisputeOpened"
      [] code = "Chargeback" ->
            CASE dispute_status = Some("Won") -> "DisputeWon"
              [] dispute_status = Some("Lost") \/ dispute_status = None -> "DisputeLost"
              [] OTHER -> "DisputeLost"
      [] code = "ChargebackReversed" ->
            IF dispute_status = Some("Pending") THEN "DisputeChallenged" ELSE "DisputeWon"
      [] code = "SecondChargeback" -> "DisputeLost"
      [] code = "PrearbitrationWon" ->
            IF dispute_status = Some("Pending") THEN "DisputeOpened" ELSE "DisputeWon"
      [] code = "PrearbitrationLost" -> "DisputeLost"
      [] code = "Capture" ->
            IF is_success_scenario(is_success)
            THEN "PaymentIntentCaptureSuccess" ELSE "PaymentIntentCaptureFailure"
      [] code = "CaptureFailed" -> "PaymentIntentCaptureFailure"
      [] code = "PayoutThirdparty" -> "PayoutCreated"
      [] code = "PayoutDecline" -> "PayoutFailure"
      [] code = "PayoutExpire" -> "PayoutExpired"
      [] code = "PayoutReversed" -> "PayoutReversed"
      [] code = "Unknown" -> "EventNotSupported"

(* mutant: a Chargeback without sub-status is left open *)
get_adyen_webhook_event_chargeback_absent_opened(code, is_success, dispute_status) ==
    CASE code = "Authorisation" ->
            IF is_success_scenario(is_success)
            THEN "PaymentIntentSuccess" ELSE "PaymentIntentFailure"
      [] code \in {"Refund", "CancelOrRefund"} ->
            IF is_success_scenario(is_success) THEN "RefundSuccess" ELSE "RefundFailure"
      [] code = "Cancellation" ->
            IF is_success_scenario(is_success)
            THEN "PaymentIntentCancelled" ELSE "PaymentIntentCancelFailure"
      [] code \in {"RefundFailed", "RefundReversed"} -> "RefundFailure"
      [] code = "NotificationOfChargeback" -> "DisputeOpened"
      [] code = "Chargeback" ->
            CASE dispute_status = Some("Won") -> "DisputeWon"
              [] dispute_status = Some("Lost") -> "DisputeLost"
              [] OTHER -> "DisputeOpened"
      [] code = "ChargebackReversed" ->
            IF dispute_status = Some("Pending") THEN "DisputeChallenged" ELSE "DisputeWon"
      [] code = "SecondChargeback" -> "DisputeLost"
      [] code = "PrearbitrationWon" ->
            IF dispute_status = Some("Pending") THEN "DisputeOpened" ELSE "DisputeWon"
      [] code = "PrearbitrationLost" -> "DisputeLost"
      [] code = "Capture" ->
            IF is_success_scenario(is_success)
            THEN "PaymentIntentCaptureSuccess" ELSE "PaymentIntentCaptureFailure"
      [] code = "CaptureFailed" -> "PaymentIntentCaptureFailure"
      [] code = "PayoutThirdparty" -> "PayoutCreated"
      [] code = "PayoutDecline" -> "PayoutFailure"
      [] code = "PayoutExpire" -> "PayoutExpired"
      [] code = "PayoutReversed" -> "PayoutReversed"
      [] code = "Unknown" -> "EventNotSupported"

get_adyen_webhook_event(code, is_success, dispute_status) ==
    CASE code = "Authorisation" ->
            IF is_success_scenario(is_success)
            THEN "PaymentIntentSuccess" ELSE "PaymentIntentFailure"
      [] code \in {"Refund", "CancelOrRefund"} ->
            IF is_success_scenario(is_success) THEN "RefundSuccess" ELSE "RefundFailure"
      [] code = "Cancellation" ->
            IF is_success_scenario(is_success)
            THEN "PaymentIntentCancelled" ELSE "PaymentIntentCancelFailure"
      [] code \in {"RefundFailed", "RefundReversed"} -> "RefundFailure"
      [] code = "NotificationOfChargeback" -> "DisputeOpened"
      [] code = "Chargeback" ->
            CASE dispute_status = Some("Won") -> "DisputeWon"
              [] dispute_status = Some("Lost") \/ dispute_status = None -> "DisputeLost"
              [] OTHER -> "DisputeOpened"
      [] code = "ChargebackReversed" ->
            IF dispute_status = Some("Pending") THEN "DisputeChallenged" ELSE "DisputeWon"
      [] code = "SecondChargeback" -> "DisputeLost"
      [] code = "PrearbitrationWon" ->
            IF dispute_status = Some("Pending") THEN "DisputeOpened" ELSE "DisputeWon"
      [] code = "PrearbitrationLost" -> "DisputeLost"
      [] code = "Capture" ->
            IF is_success_scenario(is_success)
            THEN "PaymentIntentCaptureSuccess" ELSE "PaymentIntentCaptureFailure"
      [] code = "CaptureFailed" -> "PaymentIntentCaptureFailure"
      [] code = "PayoutThirdparty" -> "PayoutCreated"
      [] code = "PayoutDecline" -> "PayoutFailure"
      [] code = "PayoutExpire" -> "PayoutExpired"
      [] code = "PayoutReversed" -> "PayoutReversed"
      [] code = "Unknown" -> "EventNotSupported"

(* From<AdyenNotificationRequestItemWH> for AdyenWebhookResponse *)
webhook_response_from(notif) ==
    LET failed == ~is_success_scenario(notif.success)
        code == notif.event_code
    IN  [ transaction_id |-> notif.psp_reference,
          status |->
            CASE code = "Authorisation" ->
                    IF is_success_scenario(notif.success)
                    THEN "Authorised" ELSE "AuthorisationFailed"
              [] code = "Cancellation" ->
                    IF is_success_scenario(notif.success) THEN "Cancelled" ELSE "CancelFailed"
              [] code = "Capture" ->
                    IF is_success_scenario(notif.success) THEN "Captured" ELSE "CaptureFailed"
              [] code = "PayoutThirdparty" ->
                    IF is_success_scenario(notif.success)
                    THEN "Authorised" ELSE "AuthorisationFailed"
              [] code = "PayoutDecline" -> "Cancelled"
              [] code = "PayoutExpire" -> "AuthorisationFailed"
              [] code = "PayoutReversed" -> "Reversed"
              [] code = "CaptureFailed" -> "CaptureFailed"
              [] code \in {"CancelOrRefund", "Refund", "RefundFailed", "RefundReversed",
                           "NotificationOfChargeback", "Chargeback", "ChargebackReversed",
                           "SecondChargeback", "PrearbitrationWon", "PrearbitrationLost",
                           "Unknown"} -> "UnexpectedEvent",
          refusal_reason |->
            IF failed
            THEN (IF is_some(notif.reason) THEN notif.reason ELSE Some(NO_ERROR_MESSAGE))
            ELSE None,
          refusal_reason_code |-> IF failed THEN Some(NO_ERROR_CODE) ELSE None,
          event_code |-> code ]

(* utils::MultipleCaptureSyncResponse for AdyenWebhookResponse *)
get_connector_capture_id(resp) == resp.transaction_id

get_capture_attempt_status(resp) ==
    IF resp.status = "Captured" THEN "Charged" ELSE "CaptureFailed"

is_capture_response(resp) == resp.event_code \in {"Capture", "CaptureFailed"}

(* utils::construct_captures_response_hashmap over a one-element list *)
construct_captures_response_hashmap(resp) ==
    IF is_capture_response(resp)
    THEN { [capture_id |-> get_connector_capture_id(resp),
            status |-> get_capture_attempt_status(resp)] }
    ELSE {}

get_webhook_response_single_transaction(resp, manual, is_multiple_capture_psync_flow, status_code) ==
    LET normalized == webhook_status_to_attempt_status(manual, resp.status)
        error == adyen_refusal_error(resp.refusal_reason, resp.refusal_reason_code,
                                     normalized.status, status_code)
    IN  IF ~normalized.ok
        THEN ParseErr(normalized.err)
        ELSE ParseOk(normalized.status, error, TransactionResponse)

get_webhook_response(resp, manual, is_multiple_capture_psync_flow, status_code) ==
    LET normalized == webhook_status_to_attempt_status(manual, resp.status)
        error == adyen_refusal_error(resp.refusal_reason, resp.refusal_reason_code,
                                     normalized.status, status_code)
    IN  IF ~normalized.ok
        THEN ParseErr(normalized.err)
        ELSE IF is_multiple_capture_psync_flow
        THEN ParseOk(normalized.status, error,
                     MultipleCaptureResponse(construct_captures_response_hashmap(resp)))
        ELSE ParseOk(normalized.status, error, TransactionResponse)

----------------------------------------------------------------------------
(* Bank of America error normalizer and response parsers *)

RECURSIVE join_rule_names(_)
join_rule_names(rules) ==
    IF rules = <<>> THEN ""
    ELSE (IF is_some(Head(rules)) THEN " , " \o Head(rules)[1] ELSE "")
         \o join_rule_names(Tail(rules))

RECURSIVE join_details(_)
join_details(details) ==
    IF details = <<>> THEN ""
    ELSE (Head(details).field \o " : " \o Head(details).reason)
         \o (IF Tail(details) = <<>> THEN "" ELSE ", " \o join_details(Tail(details)))

get_avs_message(risk_information) ==
    IF is_none(risk_information) THEN Some("")
    ELSE IF is_none(risk_information[1].rules) THEN None
    ELSE Some(join_rule_names(risk_information[1].rules[1]))

get_detailed_error_info(error_data) ==
    IF is_none(error_data) THEN None
    ELSE IF is_none(error_data[1].details) THEN None
    ELSE Some(join_details(error_data[1].details[1]))

get_error_reason(error_info, detailed_error_info, avs_error_info) ==
    CASE is_some(error_info) /\ is_some(detailed_error_info) /\ is_some(avs_error_info) ->
            Some(error_info[1] \o ", detailed_error_information: " \o detailed_error_info[1]
                 \o ", avs_message: " \o avs_error_info[1])
      [] is_some(error_info) /\ is_some(detailed_error_info) /\ is_none(avs_error_info) ->
            Some(error_info[1] \o ", detailed_error_information: " \o detailed_error_info[1])
      [] is_some(error_info) /\ is_none(detailed_error_info) /\ is_some(avs_error_info) ->
            Some(error_info[1] \o ", avs_message: " \o avs_error_info[1])
      [] is_none(error_info) /\ is_some(detailed_error_info) /\ is_some(avs_error_info) ->
            Some(detailed_error_info[1] \o ", avs_message: " \o avs_error_info[1])
      [] is_some(error_info) /\ is_none(detailed_error_info) /\ is_none(avs_error_info) ->
            error_info
      [] is_none(error_info) /\ is_some(detailed_error_info) /\ is_none(avs_error_info) ->
            detailed_error_info
      [] is_none(error_info) /\ is_none(detailed_error_info) /\ is_some(avs_error_info) ->
            avs_error_info
      [] is_none(error_info) /\ is_none(detailed_error_info) /\ is_none(avs_error_info) ->
            None

(* ForeignFrom<(&Option<BankOfAmericaErrorInformation>, &Option<ClientRiskInformation>, *)
(*              Option<AttemptStatus>, u16, String)> for ErrorResponse                  *)
boa_error_response(error_data, risk_information, attempt_status, status_code) ==
    LET message == IF is_some(error_data) THEN error_data[1].message ELSE None
        error_message == IF is_some(error_data) THEN error_data[1].reason ELSE None
        reason == get_error_reason(message, get_detailed_error_info(error_data),
                                   get_avs_message(risk_information))
    IN  ErrorResponse(unwrap_or(error_message, NO_ERROR_CODE),
                      unwrap_or(error_message, NO_ERROR_MESSAGE),
                      reason, status_code, attempt_status)

(* utils::is_payment_failure *)
is_payment_failure(s) == s \in {"CaptureFailed", "VoidFailed", "Failure"}

get_error_response_if_failure(info_response, s, http_code) ==
    IF is_payment_failure(s)
    THEN Some(boa_error_response(info_response.error_information,
                                 info_response.risk_information, Some(s), http_code))
    ELSE None

(* Result<PaymentsResponseData, ErrorResponse> as the RouterData.response pair *)
ResponseOk(data) == [ok |-> Some(data), err |-> None]

ResponseErr(error) == [ok |-> None, err |-> Some(error)]

NoResponse == [ok |-> None, err |-> None]

get_payment_response(info_response, s, http_code) ==
    LET error_response == get_error_response_if_failure(info_response, s, http_code)
    IN  IF is_some(error_response)
        THEN ResponseErr(error_response[1])
        ELSE ResponseOk(TransactionResponse)

(* ForeignFrom<(&BankOfAmericaErrorInformationResponse, ResponseRouterData, *)
(*              Option<AttemptStatus>)> for RouterData: [status, response]  *)
boa_error_information_router_data(error_response, item_status, http_code, transaction_status) ==
    LET info == error_response.error_information
        reason == get_error_reason(info.message, get_detailed_error_info(Some(info)), None)
        resp == ResponseErr(ErrorResponse(unwrap_or(info.reason, NO_ERROR_CODE),
                                          unwrap_or(info.reason, NO_ERROR_MESSAGE),
                                          reason, http_code, None))
    IN  [status |-> unwrap_or(transaction_status, item_status), response |-> resp]

(* TryFrom<ResponseRouterData<_, BankOfAmericaPaymentsResponse, _, _>> for the  *)
(* authorize, capture and cancel RouterData; auto_capture is                    *)
(* request.is_auto_capture() on authorize, true on capture, false on cancel.    *)
boa_auto_capture(flow, manual) ==
    CASE flow = "Authorize" -> ~manual
      [] flow = "Capture" -> TRUE
      [] flow = "Void" -> FALSE

boa_payments_try_from(msg, item_status, manual, http_code) ==
    IF msg.variant = "ClientReferenceInformation"
    THEN LET s == boa_status_to_attempt_status(msg.status, boa_auto_capture(msg.flow, manual))
         IN  [status |-> s, response |-> get_payment_response(msg, s, http_code)]
    ELSE boa_error_information_router_data(
             msg, item_status, http_code,
             IF msg.flow = "Authorize" THEN Some("Failure") ELSE None)

----------------------------------------------------------------------------
(* Adyen: writing a parsed response into the attempt *)

(* Result<RouterData, Error>; the RouterData is [status, response] *)
RouterDataOk(s, resp) == [ok |-> TRUE, status |-> s, response |-> resp, err |-> ""]

RouterDataErr(e) == [ok |-> FALSE, status |-> "", response |-> NoResponse, err |-> e]

(* ForeignTryFrom<(ResponseRouterData<_, AdyenPaymentResponse, _, _>,             *)
(*                 Option<CaptureMethod>, bool, Option<PaymentMethodType>)>       *)
adyen_foreign_try_from(shape, body, http_code, manual, is_multiple_capture_psync_flow, pm) ==
    LET parsed ==
            CASE shape = "Response" -> get_adyen_response(body, manual, http_code, pm)
              [] shape = "PresentToShopper" ->
                    get_present_to_shopper_response(body, manual, http_code, pm)
              [] shape = "QrCodeResponse" -> get_qr_code_response(body, manual, http_code, pm)
              [] shape = "RedirectionResponse" ->
                    get_redirection_response(body, manual, http_code, pm)
              [] shape = "RedirectionErrorResponse" ->
                    get_redirection_error_response(body, manual, http_code, pm)
              [] shape = "WebhookResponse" ->
                    get_webhook_response(body, manual, is_multiple_capture_psync_flow, http_code)
    IN  IF ~parsed.ok
        THEN RouterDataErr(parsed.err)
        ELSE RouterDataOk(parsed.status,
                          IF is_some(parsed.error)
                          THEN ResponseErr(parsed.error[1])
                          ELSE ResponseOk(parsed.data))

(* TryFrom<PaymentsCancelResponseRouterData<AdyenCancelResponse>> *)
adyen_cancel_try_from(item_status) == RouterDataOk("Pending", ResponseOk(TransactionResponse))

----------------------------------------------------------------------------
(* Messages a connector can deliver *)

RefusalTexts ==
    { <<None, None>>, <<Some("Refused"), Some("2")>>, <<Some("Refused"), None>>,
      <<None, Some("2")>>, <<Some(""), Some("")>> }

AdyenPaymentResponses ==
    { [kind |-> "AdyenPaymentResponse", shape |-> sh, result_code |-> rc,
       refusal_reason |-> t[1], refusal_reason_code |-> t[2], qr_image_ok |-> TRUE] :
         sh \in {"Response", "PresentToShopper", "QrCodeResponse", "RedirectionResponse"},
         rc \in AdyenStatus, t \in RefusalTexts }
    \cup
    { [kind |-> "AdyenPaymentResponse", shape |-> "QrCodeResponse", result_code |-> rc,
       refusal_reason |-> t[1], refusal_reason_code |-> t[2], qr_image_ok |-> FALSE] :
         rc \in AdyenStatus, t \in RefusalTexts }
    \cup
    { [kind |-> "AdyenPaymentResponse", shape |-> "RedirectionErrorResponse",
       result_code |-> rc, refusal_reason |-> r, refusal_reason_code |-> None,
       qr_image_ok |-> TRUE] :
         rc \in AdyenStatus, r \in {None, Some("Refused"), Some("")} }

AdyenCancelResponses == { [kind |-> "AdyenCancelResponse"] }

RawEventCodes ==
    { "AUTHORISATION", "REFUND", "CANCEL_OR_REFUND", "CANCELLATION", "CAPTURE",
      "CAPTURE_FAILED", "REFUND_FAILED", "REFUND_REVERSED", "NOTIFICATION_OF_CHARGEBACK",
      "CHARGEBACK", "CHARGEBACK_REVERSED", "SECOND_CHARGEBACK", "PREARBITRATION_WON",
      "PREARBITRATION_LOST", "PAYOUT_THIRDPARTY", "PAYOUT_DECLINE", "PAYOUT_EXPIRE",
      "PAYOUT_REVERSED", "REPORT_AVAILABLE", "OFFER_CLOSED" }

SuccessFlags == { "true", "false", "True" }

DisputeStatus == { "Undefended", "Pending", "Lost", "Accepted", "Won" }

(* the notification fields get_webhook_event_type hands to get_adyen_webhook_event *)
AdyenWebhookEvents ==
    { [kind |-> "AdyenWebhookEvent", event_code |-> c, success |-> f, dispute_status |-> d] :
         c \in RawEventCodes, f \in SuccessFlags,
         d \in {None} \cup { Some(x) : x \in DisputeStatus } }

(* the notification fields the webhook resource object is built from *)
AdyenWebhookResources ==
    { [kind |-> "AdyenWebhookResource", event_code |-> c, success |-> f, reason |-> r,
       psp_reference |-> "psp_1", is_multiple_capture_psync_flow |-> m] :
         c \in RawEventCodes, f \in SuccessFlags,
         r \in {None, Some("Refused"), Some("")}, m \in BOOLEAN }

Details == << [field |-> "card.number", reason |-> "INVALID_DATA"],
              [field |-> "amount", reason |-> "MISSING_FIELD"] >>

BankOfAmericaErrorInformation ==
    { [reason |-> None, message |-> None, details |-> None],
      [reason |-> Some("PROCESSOR_DECLINED"), message |-> Some("Decline"), details |-> None],
      [reason |-> Some("INVALID_DATA"), message |-> None, details |-> Some(Details)],
      [reason |-> None, message |-> Some("Decline"), details |-> Some(Details)],
      [reason |-> Some(""), message |-> None, details |-> None] }

ClientRiskInformation ==
    { [rules |-> None], [rules |-> Some(<<Some("AVS_MISMATCH"), None>>)] }

BoaPaymentsResponses ==
    { [kind |-> "BoaPaymentsResponse", flow |-> fl, variant |-> "ClientReferenceInformation",
       status |-> st, error_information |-> e, risk_information |-> r] :
         fl \in {"Authorize", "Capture", "Void"}, st \in BankofamericaPaymentStatus,
         e \in {None} \cup { Some(x) : x \in BankOfAmericaErrorInformation },
         r \in {None} \cup { Some(x) : x \in ClientRiskInformation } }
    \cup
    { [kind |-> "BoaPaymentsResponse", flow |-> fl, variant |-> "ErrorInformation",
       status |-> "", error_information |-> e, risk_information |-> None] :
         fl \in {"Authorize", "Capture", "Void"}, e \in BankOfAmericaErrorInformation }

MessagesOf(c) ==
    IF c = "Adyen"
    THEN AdyenPaymentResponses \cup AdyenCancelResponses \cup AdyenWebhookEvents
         \cup AdyenWebhookResources
    ELSE BoaPaymentsResponses

----------------------------------------------------------------------------
(* The attempt *)

Init ==
    /\ connector \in {"Adyen", "Bankofamerica"}
    /\ is_manual_capture \in BOOLEAN
    /\ pmt \in PaymentMethodTypes
    /\ (connector = "Bankofamerica" => pmt = Some("Credit"))
    /\ status \in {"PaymentMethodAwaited", "Pending"}
    /\ response = NoResponse
    /\ inflight = None
    /\ handled = FALSE
    /\ outcome = ""
    /\ event = ""
    /\ request = None
    /\ MockDbIdle /\ RecoveryIdle /\ PubSubIdle

(* the connector answers a call, or delivers a webhook *)
Deliver ==
    /\ inflight = None
    /\ \E msg \in MessagesOf(connector) : inflight' = Some(msg)
    /\ handled' = FALSE
    /\ UNCHANGED <<connector, is_manual_capture, pmt, status, response, outcome, event, request,
                 backendVars>>

Pending(kind) == is_some(inflight) /\ ~handled /\ inflight[1].kind = kind

(* write the Result of a transformer into the attempt *)
Merge(result) ==
    /\ outcome' = IF result.ok THEN "Ok" ELSE result.err
    /\ status' = IF result.ok THEN result.status ELSE status
    /\ response' = IF result.ok THEN result.response ELSE response

AdyenPaymentsResponse ==
    /\ Pending("AdyenPaymentResponse")
    /\ Merge(adyen_foreign_try_from(inflight[1].shape, inflight[1], HttpCode,
                                    is_manual_capture, FALSE, pmt))
    /\ handled' = TRUE
    /\ UNCHANGED <<connector, is_manual_capture, pmt, inflight, event, request, backendVars>>

AdyenCancelResponse ==
    /\ Pending("AdyenCancelResponse")
    /\ Merge(adyen_cancel_try_from(status))
    /\ handled' = TRUE
    /\ UNCHANGED <<connector, is_manual_capture, pmt, inflight, event, request, backendVars>>

(* get_webhook_event_type *)
AdyenWebhookEventType ==
    /\ Pending("AdyenWebhookEvent")
    /\ event' = get_adyen_webhook_event(deserialize_event_code(inflight[1].event_code),
                                        inflight[1].success, inflight[1].dispute_status)
    /\ outcome' = "Ok"
    /\ handled' = TRUE
    /\ UNCHANGED <<connector, is_manual_capture, pmt, status, response, inflight, request,
                 backendVars>>

AdyenWebhookResource(notif) ==
    webhook_response_from([notif EXCEPT !.event_code = deserialize_event_code(@)])

(* the webhook resource object consumed by the payment sync *)
AdyenWebhookPsync ==
    /\ Pending("AdyenWebhookResource")
    /\ Merge(adyen_foreign_try_from("WebhookResponse", AdyenWebhookResource(inflight[1]),
                                    HttpCode, is_manual_capture,
                                    inflight[1].is_multiple_capture_psync_flow, pmt))
    /\ handled' = TRUE
    /\ UNCHANGED <<connector, is_manual_capture, pmt, inflight, event, request, backendVars>>

BoaPaymentsResponse ==
    /\ Pending("BoaPaymentsResponse")
    /\ LET data == boa_payments_try_from(inflight[1], status, is_manual_capture, HttpCode)
       IN  Merge(RouterDataOk(data.status, data.response))
    /\ handled' = TRUE
    /\ UNCHANGED <<connector, is_manual_capture, pmt, inflight, event, request, backendVars>>

(* the caller takes the result; the unit of work is over *)
Return ==
    /\ is_some(inflight) /\ handled
    /\ inflight' = None
    /\ handled' = FALSE
    /\ outcome' = ""
    /\ event' = ""
    /\ request' = None
    /\ UNCHANGED <<connector, is_manual_capture, pmt, status, response, backendVars>>

Next ==
    \/ Deliver
    \/ AdyenPaymentsResponse
    \/ AdyenCancelResponse
    \/ AdyenWebhookEventType
    \/ AdyenWebhookPsync
    \/ BoaPaymentsResponse
    \/ Return

Spec == Init /\ [][Next]_vars

----------------------------------------------------------------------------
(* Request transformers: the authorize, capture and refund requests built   *)
(* from a RouterData.  An item is the RouterData handed to the transformer: *)
(* pmd/variant name the PaymentMethodData case, `present` is the set of     *)
(* optional fields that are filled in.                                      *)

PaymentMethodData ==
    {"Card", "Wallet", "PayLater", "BankRedirect", "BankDebit", "BankTransfer",
     "CardRedirect", "Voucher", "GiftCard", "NetworkToken", "Crypto", "MandatePayment",
     "Reward", "RealTimePayment", "MobilePayment", "Upi", "OpenBanking", "CardToken",
     "CardDetailsForNetworkTransactionId"}

CardNetwork ==
    {"Visa", "Mastercard", "CartesBancaires", "AmericanExpress", "JCB", "DinersClub",
     "Discover", "UnionPay", "RuPay", "Maestro", "Interac"}

(* Result<_, ConnectorError>: field_name is set by MissingRequiredField, message *)
(* holds the names a NotImplemented / NotSupported message is built from.       *)
ConnectorError(err, field_name, message) ==
    [ok |-> FALSE, err |-> err, field_name |-> field_name, message |-> message]

PaymentMethodOk(payment_method, brand) ==
    [ok |-> TRUE, payment_method |-> payment_method, brand |-> brand]

get_unimplemented_payment_method_error_message(connector_name) == {connector_name}

NotImplemented(message) == ConnectorError("NotImplemented", "", message)

MissingRequiredField(field_name) == ConnectorError("MissingRequiredField", field_name, {})

check_required_field(field_present, message) ==
    IF field_present THEN None ELSE Some(MissingRequiredField(message))

(* the first Err among checks made in order: a chain of `?` *)
RECURSIVE first_err(_)
first_err(checks) ==
    IF checks = <<>> THEN None
    ELSE IF is_some(Head(checks)) THEN Head(checks)
    ELSE first_err(Tail(checks))

(* RouterData accessors get_billing_email, get_billing_phone,                   *)
(* get_billing_first_name, get_billing_full_name, ...: the value, or            *)
(* MissingRequiredField naming the field, taken in the order the caller invokes *)
(* them                                                                         *)
first_missing(fields, present) ==
    first_err([i \in DOMAIN fields |-> check_required_field(fields[i] \in present, fields[i])])

get_adyen_card_network(card_network) ==
    CASE card_network = "Visa" -> Some("Visa")
      [] card_network = "Mastercard" -> Some("MC")
      [] card_network = "CartesBancaires" -> Some("Cartebancaire")
      [] card_network = "AmericanExpress" -> Some("Amex")
      [] card_network = "JCB" -> Some("Jcb")
      [] card_network = "DinersClub" -> Some("Diners")
      [] card_network = "Discover" -> Some("Discover")
      [] card_network = "UnionPay" -> Some("Cup")
      [] card_network = "RuPay" -> Some("Rupay")
      [] card_network = "Maestro" -> Some("Maestro")
      [] card_network = "Interac" -> None

(* AdyenPaymentMethod::try_from((&Card, holder_name)) *)
adyen_card_try_from(item) ==
    PaymentMethodOk("AdyenCard", (IF is_some(item.card_network)
                                 THEN get_adyen_card_network(item.card_network[1]) ELSE None))

(* AdyenPaymentMethod::try_from((&BankDebitData, item)) *)
adyen_bank_debit_try_from(item) ==
    CASE item.variant \in {"AchBankDebit", "SepaBankDebit", "BacsBankDebit"} ->
            IF "billing.first_name" \in item.present
            THEN PaymentMethodOk(item.variant, None)
            ELSE MissingRequiredField("billing.first_name")
      [] item.variant = "BecsBankDebit" ->
            NotImplemented(get_unimplemented_payment_method_error_message("Adyen"))

(* AdyenPaymentMethod::try_from((&VoucherData, item)), with DokuBankData and *)
(* JCSVoucherData built from the billing details                             *)
adyen_voucher_try_from(item) ==
    LET from_billing(fields) ==
            LET missing == first_missing(fields, item.present)
            IN  IF is_some(missing) THEN missing[1]
                ELSE PaymentMethodOk(item.variant, None)
    IN  CASE item.variant \in {"Boleto", "Oxxo"} -> PaymentMethodOk(item.variant, None)
          [] item.variant \in {"Alfamart", "Indomaret"} ->
                from_billing(<<"billing.first_name", "email">>)
          [] item.variant \in {"SevenEleven", "Lawson", "MiniStop", "FamilyMart",
                               "Seicomart", "PayEasy"} ->
                from_billing(<<"billing.first_name", "email", "billing.phone">>)
          [] item.variant \in {"Efecty", "PagoEfectivo", "RedCompra", "RedPagos"} ->
                NotImplemented(get_unimplemented_payment_method_error_message("Adyen"))

(* AdyenPaymentMethod::try_from(&GiftCardData) *)
adyen_gift_card_try_from(item) ==
    CASE item.variant = "PaySafeCard" -> PaymentMethodOk("PaySafeCard", None)
      [] item.variant = "Givex" -> PaymentMethodOk("AdyenGiftCard", None)

(* AdyenPaymentMethod::try_from((&WalletData, item)) *)
adyen_wallet_try_from(item) ==
    CASE item.variant \in {"GooglePay", "ApplePay", "PaypalRedirect", "AliPayRedirect",
                           "AliPayHkRedirect", "GoPayRedirect", "KakaoPayRedirect",
                           "GcashRedirect", "MomoRedirect", "TouchNGoRedirect",
                           "MobilePayRedirect", "WeChatPayRedirect", "SamsungPay",
                           "TwintRedirect", "VippsRedirect", "DanaRedirect", "SwishQr"} ->
            PaymentMethodOk(item.variant, None)
      [] item.variant = "MbWayRedirect" ->
            IF "billing.phone" \in item.present
            THEN PaymentMethodOk("Mbway", None)
            ELSE MissingRequiredField("billing.phone")
      [] item.variant = "Paze" ->
            IF item.payment_method_token = Some("PazeDecrypt")
            THEN PaymentMethodOk("AdyenPaze",
                                 (IF is_some(item.card_network)
                                 THEN get_adyen_card_network(item.card_network[1]) ELSE None))
            ELSE NotImplemented(get_unimplemented_payment_method_error_message("Cybersource"))
      [] item.variant \in {"AliPayQr", "AmazonPayRedirect", "ApplePayRedirect",
                           "ApplePayThirdPartySdk", "GooglePayRedirect",
                           "GooglePayThirdPartySdk", "PaypalSdk", "WeChatPayQr", "CashappQr",
                           "Mifinity"} ->
            NotImplemented(get_unimplemented_payment_method_error_message("Adyen"))

build_shopper_reference(customer_id, merchant_id) ==
    IF is_some(customer_id) THEN Some(<<merchant_id, "_", customer_id[1]>>) ELSE None

(* AdyenPaymentMethod::try_from((&PayLaterData, country_code, shopper_email,      *)
(* shopper_reference, shopper_name, telephone_number, billing_address,           *)
(* delivery_address)), with the arguments the pay-later request builder computes *)
adyen_pay_later_try_from(item) ==
    LET shopper_email    == "email" \in item.present
        shopper_reference == is_some(build_shopper_reference(item.customer_id, item.merchant_id))
        shopper_name     == TRUE  \* get_shopper_name returns Some(ShopperName) always
        telephone_number == "billing.phone" \in item.present
        billing_address  == "billing" \in item.present
        delivery_address == "shipping" \in item.present
        country_code     == is_some(item.country)
        checked(checks, payment_method) ==
            IF is_some(first_err(checks)) THEN first_err(checks)[1]
            ELSE PaymentMethodOk(payment_method, None)
    IN  CASE item.variant = "KlarnaRedirect" ->
                checked(<<check_required_field(shopper_email, "email"),
                          check_required_field(shopper_reference, "customer_id"),
                          check_required_field(country_code, "billing.country")>>, "AdyenKlarna")
          [] item.variant = "AffirmRedirect" ->
                checked(<<check_required_field(shopper_email, "email"),
                          check_required_field(shopper_name, "billing.first_name, billing.last_name"),
                          check_required_field(telephone_number, "billing.phone"),
                          check_required_field(billing_address, "billing")>>, "AdyenAffirm")
          [] item.variant = "AfterpayClearpayRedirect" ->
                checked(<<check_required_field(shopper_email, "email"),
                          check_required_field(shopper_name, "billing.first_name, billing.last_name"),
                          check_required_field(delivery_address, "shipping"),
                          check_required_field(billing_address, "billing"),
                          IF country_code THEN None ELSE Some(MissingRequiredField("country"))>>,
                        IF item.country \in {Some("IT"), Some("FR"), Some("ES"), Some("GB")}
                        THEN "ClearPay" ELSE "AfterPay")
          [] item.variant = "PayBrightRedirect" ->
                checked(<<check_required_field(shopper_name, "billing.first_name, billing.last_name"),
                          check_required_field(telephone_number, "billing.phone"),
                          check_required_field(shopper_email, "email"),
                          check_required_field(billing_address, "billing"),
                          check_required_field(delivery_address, "shipping"),
                          check_required_field(country_code, "billing.country")>>, "PayBright")
          [] item.variant = "WalleyRedirect" ->
                checked(<<check_required_field(telephone_number, "billing.phone"),
                          check_required_field(shopper_email, "email")>>, "Walley")
          [] item.variant = "AlmaRedirect" ->
                checked(<<check_required_field(telephone_number, "billing.phone"),
                          check_required_field(shopper_email, "email"),
                          check_required_field(billing_address, "billing"),
                          check_required_field(delivery_address, "shipping")>>, "AlmaPayLater")
          [] item.variant = "AtomeRedirect" ->
                checked(<<check_required_field(shopper_email, "email"),
                          check_required_field(shopper_name, "billing.first_name, billing.last_name"),
                          check_required_field(telephone_number, "billing.phone"),
                          check_required_field(billing_address, "billing")>>, "Atome")
          [] item.variant = "KlarnaSdk" ->
                NotImplemented(get_unimplemented_payment_method_error_message("Adyen"))

(* AdyenPaymentMethod::try_from((&BankRedirectData, item)) *)
adyen_bank_redirect_try_from(item) ==
    LET issuer_of(payment_method) ==
            IF "issuer.supported" \in item.present
            THEN PaymentMethodOk(payment_method, None)
            ELSE NotImplemented(get_unimplemented_payment_method_error_message("Adyen"))
        missing(fields) == first_missing(fields, item.present)
    IN  CASE item.variant = "BancontactCard" ->
                LET m == missing(<<"bancontact_card.card_number",
                                   "bancontact_card.card_exp_month",
                                   "bancontact_card.card_exp_year", "billing.first_name">>)
                IN  IF is_some(m) THEN m[1]
                    ELSE PaymentMethodOk("BancontactCard", Some("Bcmc"))
          [] item.variant \in {"Bizum", "Ideal", "OnlineBankingFinland", "Trustly"} ->
                PaymentMethodOk(item.variant, None)
          [] item.variant = "Blik" ->
                IF "blik_code" \in item.present THEN PaymentMethodOk("Blik", None)
                ELSE MissingRequiredField("blik_code")
          [] item.variant = "Eps" ->
                IF "eps.bank_name" \in item.present THEN issuer_of("Eps")
                ELSE MissingRequiredField("eps.bank_name")
          [] item.variant \in {"OnlineBankingCzechRepublic", "OnlineBankingPoland",
                               "OnlineBankingSlovakia", "OnlineBankingFpx",
                               "OnlineBankingThailand"} ->
                issuer_of(item.variant)
          [] item.variant = "OpenBankingUk" ->
                IF "issuer" \in item.present THEN issuer_of("OpenBankingUK")
                ELSE PaymentMethodOk("OpenBankingUK", None)
          [] item.variant \in {"Giropay", "Eft", "Interac", "LocalBankRedirect", "Przelewy24",
                               "Sofort"} ->
                NotImplemented(get_unimplemented_payment_method_error_message("Adyen"))

(* AdyenPaymentMethod::try_from((&BankTransferData, item)), with DokuBankData *)
adyen_bank_transfer_try_from(item) ==
    CASE item.variant \in {"PermataBankTransfer", "BcaBankTransfer", "BniVaBankTransfer",
                           "BriVaBankTransfer", "CimbVaBankTransfer", "DanamonVaBankTransfer",
                           "MandiriVaBankTransfer"} ->
            LET m == first_missing(<<"billing.first_name", "email">>, item.present)
            IN  IF is_some(m) THEN m[1]
                ELSE PaymentMethodOk(item.variant, None)
      [] item.variant = "Pix" -> PaymentMethodOk("Pix", None)
      [] item.variant \in {"AchBankTransfer", "SepaBankTransfer", "BacsBankTransfer",
                           "MultibancoBankTransfer", "LocalBankTransfer", "Pse"} ->
            NotImplemented(get_unimplemented_payment_method_error_message("Adyen"))

(* mutant: the unsupported card redirect fails with a generic error *)
adyen_card_redirect_try_from_generic_error(item) ==
    CASE item.variant \in {"Knet", "Benefit", "MomoAtm"} -> PaymentMethodOk(item.variant, None)
      [] item.variant = "CardRedirect" -> ConnectorError("RequestEncodingFailed", "", {})

(* AdyenPaymentMethod::try_from(&CardRedirectData) *)
adyen_card_redirect_try_from(item) ==
    CASE item.variant \in {"Knet", "Benefit", "MomoAtm"} -> PaymentMethodOk(item.variant, None)
      [] item.variant = "CardRedirect" ->
            NotImplemented(get_unimplemented_payment_method_error_message("Adyen"))

(* get_browser_info: Ok(Some(AdyenBrowserInfo)) for a 3DS, card, bank-redirect,   *)
(* GoPay or Google Pay payment, whose request must then carry browser            *)
(* information; Ok(None) for every other payment.  item.payment_method is the    *)
(* PaymentMethod of the payment method data.                                     *)
get_browser_info_unconditional(item) ==
    IF item.browser_info THEN [ok |-> TRUE, info |-> Some("AdyenBrowserInfo")]
    ELSE MissingRequiredField("browser_info")

get_browser_info(item) ==
    LET payment_method ==
            IF item.pmd \in {"Card", "NetworkToken", "CardDetailsForNetworkTransactionId"}
            THEN "Card" ELSE item.pmd
    IN  IF \/ item.auth_type = "ThreeDs"
           \/ payment_method = "Card"
           \/ payment_method = "BankRedirect"
           \/ item.payment_method_type = Some("GoPay")
           \/ item.payment_method_type = Some("GooglePay")
        THEN IF item.browser_info THEN [ok |-> TRUE, info |-> Some("AdyenBrowserInfo")]
             ELSE MissingRequiredField("browser_info")
        ELSE [ok |-> TRUE, info |-> None]

RecurringDetails(model, store_payment_method, shopper_reference) ==
    [ok |-> TRUE, recurring_processing_model |-> model,
     store_payment_method |-> store_payment_method, shopper_reference |-> shopper_reference]

get_recurring_processing_model_without_reference(item) ==
    CASE item.setup_future_usage = Some("OffSession") ->
                IF is_none(item.customer_id) THEN MissingRequiredField("customer_id")
                ELSE RecurringDetails(Some("UnscheduledCardOnFile"),
                                      Some(item.is_mandate_payment), None)
          [] item.setup_future_usage # Some("OffSession") /\ item.off_session = Some(TRUE) ->
                IF is_none(item.customer_id) THEN MissingRequiredField("customer_id")
                ELSE RecurringDetails(Some("UnscheduledCardOnFile"), None, None)
          [] OTHER -> RecurringDetails(None, None, None)

get_recurring_processing_model_always_stores(item) ==
    LET shopper_reference == build_shopper_reference(item.customer_id, item.merchant_id)
    IN  CASE item.setup_future_usage = Some("OffSession") ->
                IF is_none(item.customer_id) THEN MissingRequiredField("customer_id")
                ELSE RecurringDetails(Some("UnscheduledCardOnFile"), Some(TRUE),
                                      shopper_reference)
          [] item.setup_future_usage # Some("OffSession") /\ item.off_session = Some(TRUE) ->
                IF is_none(item.customer_id) THEN MissingRequiredField("customer_id")
                ELSE RecurringDetails(Some("UnscheduledCardOnFile"), None, shopper_reference)
          [] OTHER -> RecurringDetails(None, None, None)

get_recurring_processing_model(item) ==
    LET shopper_reference == build_shopper_reference(item.customer_id, item.merchant_id)
    IN  CASE item.setup_future_usage = Some("OffSession") ->
                IF is_none(item.customer_id) THEN MissingRequiredField("customer_id")
                ELSE RecurringDetails(Some("UnscheduledCardOnFile"),
                                      Some(item.is_mandate_payment), shopper_reference)
          [] item.setup_future_usage # Some("OffSession") /\ item.off_session = Some(TRUE) ->
                IF is_none(item.customer_id) THEN MissingRequiredField("customer_id")
                ELSE RecurringDetails(Some("UnscheduledCardOnFile"), None, shopper_reference)
          [] OTHER -> RecurringDetails(None, None, None)

(* the (store, splits) pair of the wire form *)
get_adyen_split_request(split_request, currency) ==
    <<split_request.store,
      Some([i \in DOMAIN split_request.split_items |->
              LET split_item == split_request.split_items[i]
                  Amount(value) == [currency |-> currency, value |-> value]
              IN  [amount |-> (IF is_some(split_item.amount)
                                        THEN Some(Amount(split_item.amount[1])) ELSE None),
                   reference |-> split_item.reference,
                   split_type |-> split_item.split_type,
                   account |-> split_item.account,
                   description |-> split_item.description]])>>

construct_charge_response_description_dropped(store, split_item) ==
    [kind |-> "AdyenSplitPayment",
     store |-> store,
     split_items |-> [i \in DOMAIN split_item |->
                        LET value(amount) == amount.value
                        IN  [amount |-> (IF is_some(split_item[i].amount)
                                        THEN Some(value(split_item[i].amount[1])) ELSE None),
                             reference |-> split_item[i].reference,
                             split_type |-> split_item[i].split_type,
                             account |-> split_item[i].account,
                             description |-> None]]]

(* ConnectorChargeResponseData::AdyenSplitPayment decoded from the wire form *)
construct_charge_response(store, split_item) ==
    [kind |-> "AdyenSplitPayment",
     store |-> store,
     split_items |-> [i \in DOMAIN split_item |->
                        LET value(amount) == amount.value
                        IN  [amount |-> (IF is_some(split_item[i].amount)
                                        THEN Some(value(split_item[i].amount[1])) ELSE None),
                             reference |-> split_item[i].reference,
                             split_type |-> split_item[i].split_type,
                             account |-> split_item[i].account,
                             description |-> split_item[i].description]]]

(* the AdyenPaymentRequest fields the transformers differ in *)
AdyenPaymentRequest(item, payment_method, recurring, shopper_reference, store_payment_method, browser_info) ==
    LET store_and_splits ==
            IF is_some(item.split_payments) /\ item.split_payments[1].kind = "AdyenSplitPayment"
            THEN get_adyen_split_request(item.split_payments[1], item.currency)
            ELSE <<None, None>>
    IN  [ok |-> TRUE,
         payment_method |-> payment_method.payment_method,
         brand |-> payment_method.brand,
         recurring_processing_model |-> recurring,
         shopper_reference |-> shopper_reference,
         store_payment_method |-> store_payment_method,
         browser_info |-> browser_info,
         store |-> store_and_splits[1],
         splits |-> store_and_splits[2]]

(* PaymentType::try_from(&PaymentMethodType) *)
PaymentType_try_from(payment_method_type) ==
    CASE payment_method_type \in
            {"Credit", "Debit", "Klarna", "BancontactCard", "Blik", "Eps", "Ideal",
             "OnlineBankingCzechRepublic", "OnlineBankingFinland", "OnlineBankingPoland",
             "OnlineBankingSlovakia", "Trustly", "GooglePay", "AliPay", "ApplePay", "AliPayHk",
             "MbWay", "MobilePay", "WeChatPay", "SamsungPay", "Affirm", "AfterpayClearpay",
             "PayBright", "Walley"} -> PaymentMethodOk("Scheme", None)
      [] payment_method_type = "Sepa" -> PaymentMethodOk("SepaDirectDebit", None)
      [] payment_method_type = "Bacs" -> PaymentMethodOk("BacsDirectDebit", None)
      [] payment_method_type = "Ach" -> PaymentMethodOk("AchDirectDebit", None)
      [] payment_method_type = "Paypal" -> PaymentMethodOk("Paypal", None)
      [] OTHER -> NotImplemented(get_unimplemented_payment_method_error_message("Adyen"))

(* AdyenPaymentRequest::try_from((item, MandateReferenceId)) *)
adyen_mandate_try_from(item, mandate_ref_id) ==
    LET recurring == get_recurring_processing_model(item)
        \* CardBrand::try_from(&get_card_issuer()?): the issuer is recognised from
        \* the card number, or the lookup fails
        CardBrand_from_issuer(payment_method_name) ==
            IF is_some(item.card_issuer)
            THEN PaymentMethodOk(payment_method_name, item.card_issuer)
            ELSE NotImplemented({"Card Type"})
        NotSupported ==
            ConnectorError("NotSupported", "",
                           {"Network tokenization for payment method", "Adyen"})
        payment_method ==
            CASE mandate_ref_id = "ConnectorMandateId" ->
                    LET payment_type ==
                            IF is_some(item.payment_method_type)
                            THEN PaymentType_try_from(item.payment_method_type[1])
                            ELSE PaymentMethodOk("Scheme", None)
                    IN  IF ~payment_type.ok THEN payment_type
                        ELSE IF "mandate_id" \notin item.present
                        THEN MissingRequiredField("mandate_id")
                        ELSE PaymentMethodOk("AdyenMandatePaymentMethod", None)
              [] mandate_ref_id = "NetworkMandateId" ->
                    IF item.pmd = "CardDetailsForNetworkTransactionId"
                    THEN LET brand == (IF is_some(item.card_network)
                                 THEN get_adyen_card_network(item.card_network[1]) ELSE None)
                         IN  IF is_some(brand) THEN PaymentMethodOk("AdyenCard", brand)
                             ELSE CardBrand_from_issuer("AdyenCard")
                    ELSE NotSupported
              [] mandate_ref_id = "NetworkTokenWithNTI" ->
                    IF item.pmd = "NetworkToken"
                    THEN CardBrand_from_issuer("NetworkToken")
                    ELSE NotSupported
    IN  IF ~recurring.ok THEN recurring
        ELSE IF ~payment_method.ok THEN payment_method
        ELSE AdyenPaymentRequest(item, payment_method, recurring.recurring_processing_model,
                                 recurring.shopper_reference, recurring.store_payment_method,
                                 None)

(* AdyenPaymentRequest::try_from((item, payment method data)): one transformer per *)
(* PaymentMethodData case                                                          *)
adyen_payment_method_try_from(item) ==
    LET recurring == get_recurring_processing_model(item)
        browser_info == get_browser_info(item)
        get_shopper_email(is_mandate_payment) ==
            IF ~is_mandate_payment THEN None
            ELSE IF is_none(item.payment_method_type)
            THEN Some(ConnectorError("MissingPaymentMethodType", "", {}))
            ELSE IF item.payment_method_type = Some("Paypal") /\ "email" \notin item.present
            THEN Some(MissingRequiredField("email"))
            ELSE None
        built_by_reference(payment_method) ==
            IF ~recurring.ok THEN recurring
            ELSE IF ~browser_info.ok THEN browser_info
            ELSE IF ~payment_method.ok THEN payment_method
            ELSE AdyenPaymentRequest(item, payment_method, recurring.recurring_processing_model,
                                     build_shopper_reference(item.customer_id, item.merchant_id),
                                     recurring.store_payment_method, browser_info.info)
        built(payment_method) ==
            IF ~recurring.ok THEN recurring
            ELSE IF ~browser_info.ok THEN browser_info
            ELSE IF ~payment_method.ok THEN payment_method
            ELSE AdyenPaymentRequest(item, payment_method, recurring.recurring_processing_model,
                                     recurring.shopper_reference, recurring.store_payment_method,
                                     browser_info.info)
        built_without_recurring(payment_method) ==
            IF ~payment_method.ok THEN payment_method
            ELSE AdyenPaymentRequest(item, payment_method, None, None, None, None)
    IN  CASE item.pmd = "Card" -> built_by_reference(adyen_card_try_from(item))
          [] item.pmd = "NetworkToken" ->
                IF recurring.ok /\ browser_info.ok /\ "billing" \in item.present
                   /\ "address.city" \notin item.present
                THEN MissingRequiredField("address.city")
                ELSE built_by_reference(PaymentMethodOk("NetworkToken", None))
          [] item.pmd = "PayLater" ->
                IF ~browser_info.ok THEN browser_info
                ELSE built_by_reference(adyen_pay_later_try_from(item))
          [] item.pmd = "BankDebit" -> built(adyen_bank_debit_try_from(item))
          [] item.pmd = "BankRedirect" -> built(adyen_bank_redirect_try_from(item))
          [] item.pmd = "Voucher" ->
                IF ~recurring.ok THEN recurring
                ELSE IF ~browser_info.ok THEN browser_info
                ELSE IF ~adyen_voucher_try_from(item).ok THEN adyen_voucher_try_from(item)
                ELSE AdyenPaymentRequest(item, adyen_voucher_try_from(item),
                                         recurring.recurring_processing_model, None, None,
                                         browser_info.info)
          [] item.pmd = "Wallet" ->
                LET payment_method == adyen_wallet_try_from(item)
                    shopper_email ==
                        get_shopper_email(is_some(recurring.store_payment_method))
                IN  IF ~browser_info.ok THEN browser_info
                    ELSE IF ~payment_method.ok THEN payment_method
                    ELSE IF ~recurring.ok THEN recurring
                    ELSE IF is_some(shopper_email) THEN shopper_email[1]
                    ELSE built(payment_method)
          [] item.pmd = "BankTransfer" ->
                built_without_recurring(adyen_bank_transfer_try_from(item))
          [] item.pmd = "GiftCard" -> built_without_recurring(adyen_gift_card_try_from(item))
          [] item.pmd = "CardRedirect" ->
                built_without_recurring(adyen_card_redirect_try_from(item))

adyen_payments_request_try_from_mandate_ignored(item) ==
    IF item.pmd \in {"Card", "Wallet", "PayLater", "BankRedirect", "BankDebit",
                     "BankTransfer", "CardRedirect", "Voucher", "GiftCard", "NetworkToken"}
    THEN adyen_payment_method_try_from(item)
    ELSE NotImplemented(get_unimplemented_payment_method_error_message("Adyen"))

(* AdyenPaymentRequest::try_from(&AdyenRouterData<&PaymentsAuthorizeRouterData>) *)
adyen_payments_request_try_from(item) ==
    IF is_some(item.mandate_reference_id)
    THEN adyen_mandate_try_from(item, item.mandate_reference_id[1])
    ELSE IF item.pmd \in {"Card", "Wallet", "PayLater", "BankRedirect", "BankDebit",
                          "BankTransfer", "CardRedirect", "Voucher", "GiftCard", "NetworkToken"}
    THEN adyen_payment_method_try_from(item)
    ELSE NotImplemented(get_unimplemented_payment_method_error_message("Adyen"))

(* AdyenCaptureRequest::try_from: merchant_account, amount and reference only *)
adyen_capture_request_try_from(item) ==
    [ok |-> TRUE,
     reference |-> IF is_some(item.multiple_capture_data)
                   THEN item.multiple_capture_data[1]
                   ELSE item.connector_request_reference_id,
     amount |-> [currency |-> item.currency, value |-> item.amount]]

(* AdyenRefundRequest::try_from *)
adyen_refund_request_try_from(item) ==
    LET split == IF is_some(item.split_refunds) /\ item.split_refunds[1].kind = "AdyenSplitRefund"
                 THEN get_adyen_split_request(item.split_refunds[1], item.currency)
                 ELSE <<None, None>>
    IN  [ok |-> TRUE,
         amount |-> [currency |-> item.currency, value |-> item.amount],
         reference |-> item.refund_id,
         store |-> split[1],
         splits |-> split[2]]

(* get_boa_card_type *)
get_boa_card_type(card_network) ==
    CASE card_network = "Visa" -> Some("001")
      [] card_network = "Mastercard" -> Some("002")
      [] card_network = "AmericanExpress" -> Some("003")
      [] card_network = "JCB" -> Some("007")
      [] card_network = "DinersClub" -> Some("005")
      [] card_network = "Discover" -> Some("004")
      [] card_network = "CartesBancaires" -> Some("006")
      [] card_network = "UnionPay" -> Some("062")
      [] card_network = "Maestro" -> Some("042")
      [] card_network \in {"Interac", "RuPay"} -> None

(* BankOfAmericaPaymentsRequest::try_from(&BankOfAmericaRouterData<&PaymentsAuthorizeRouterData>) *)
boa_payments_request_try_from(item) ==
    LET \* PaymentInformation::try_from(&Card): the card type of the network, else the
        \* issuer recognised from the card number, else nothing
        boa_card_type ==
            LET card_type == (IF is_some(item.card_network)
                                 THEN get_boa_card_type(item.card_network[1]) ELSE None)
            IN  IF is_some(card_type) THEN card_type ELSE item.card_issuer
        with_email(payment_information, card_type) ==
            IF "email" \in item.present
            THEN PaymentMethodOk(payment_information, card_type)
            ELSE MissingRequiredField("email")
    IN  CASE "connector_mandate_id" \in item.present ->
                IF \/ item.setup_future_usage = Some("OffSession")
                      /\ "customer_acceptance" \in item.present
                   \/ "recurring_mandate_payment_data" \in item.present
                THEN PaymentMethodOk("MandatePayment", None)
                ELSE MissingRequiredField("recurring_mandate_payment_data")
          [] "connector_mandate_id" \notin item.present /\ item.pmd = "Card" ->
                with_email("Cards", boa_card_type)
          [] "connector_mandate_id" \notin item.present /\ item.pmd = "Wallet" ->
                IF item.variant = "ApplePay"
                THEN (CASE item.payment_method_token = Some("ApplePayDecrypt") ->
                                with_email("ApplePay", None)
                        [] item.payment_method_token = Some("Token") ->
                                NotImplemented({"Apple Pay", "Manual", "Bank Of America"})
                        [] item.payment_method_token = Some("PazeDecrypt") ->
                                NotImplemented({"Paze", "Bank Of America"})
                        [] item.payment_method_token = None ->
                                with_email("ApplePayToken", None))
                ELSE IF item.variant = "GooglePay" THEN with_email("GooglePay", None)
                ELSE NotImplemented(
                         get_unimplemented_payment_method_error_message("Bank of America"))
          [] "connector_mandate_id" \notin item.present /\ item.pmd = "MandatePayment" ->
                MissingRequiredField("connector_mandate_id")
          [] OTHER ->
                NotImplemented(get_unimplemented_payment_method_error_message("Bank of America"))

(* validate_shipping_address_against_payment_method *)
validate_shipping_address_against_payment_method(shipping_address, payment_method) ==
    IF payment_method = "AfterpayClearpay"
    THEN first_err(<<check_required_field("name" \in shipping_address,
                                          "shipping.address.first_name"),
                     check_required_field("line1" \in shipping_address,
                                          "shipping.address.line1"),
                     check_required_field("country" \in shipping_address,
                                          "shipping.address.country"),
                     check_required_field("zip" \in shipping_address,
                                          "shipping.address.zip")>>)
    ELSE None

(* create_stripe_payment_method *)
create_stripe_payment_method(pm_type, experience, item) ==
    LET infer_stripe_pay_later_type(type, exp) ==
            IF exp = "RedirectToUrl" /\ type \in {"Klarna", "Affirm", "AfterpayClearpay"}
            THEN PaymentMethodOk(type, None)
            ELSE ConnectorError("NotSupported", "", {type, "stripe", exp})
    IN
    CASE item.pmd = "Card" -> PaymentMethodOk("Card", None)
      [] item.pmd = "PayLater" ->
            IF is_none(pm_type) THEN MissingRequiredField("payment_method_type")
            ELSE IF is_none(experience) THEN MissingRequiredField("payment_experience")
            ELSE LET stripe_pm_type == infer_stripe_pay_later_type(pm_type[1], experience[1])
                 IN  IF ~stripe_pm_type.ok THEN stripe_pm_type
                     ELSE IF <<item.variant, stripe_pm_type.payment_method>> \in
                                {<<"KlarnaRedirect", "Klarna">>, <<"AffirmRedirect", "Affirm">>,
                                 <<"AfterpayClearpayRedirect", "AfterpayClearpay">>}
                     THEN stripe_pm_type
                     ELSE ConnectorError("MismatchedPaymentData", "", {})
      [] item.pmd = "BankRedirect" ->
            IF is_none(pm_type) THEN MissingRequiredField("payment_method_type")
            ELSE IF pm_type[1] \notin {"Giropay", "Ideal", "Sofort", "Eps"}
            THEN ConnectorError("MismatchedPaymentData", "", {})
            ELSE IF pm_type[1] \in {"Sofort", "Giropay"} THEN PaymentMethodOk(pm_type[1], None)
            ELSE IF pm_type[1] # item.variant
            THEN ConnectorError("MismatchedPaymentData", "", {})
            ELSE IF "issuer.supported" \in item.present THEN PaymentMethodOk(pm_type[1], None)
            ELSE ConnectorError("NotSupported", "", {"BankRedirect", "Stripe", "RedirectToUrl"})
      [] item.pmd = "Wallet" ->
            IF item.variant = "ApplePay"
            THEN IF "payment_data.base64" \in item.present
                 THEN PaymentMethodOk("ApplePay", None)
                 ELSE ConnectorError("RequestEncodingFailed", "", {})
            ELSE NotImplemented({"This wallet is not implemented for stripe"})
      [] item.pmd = "BankDebit" ->
            PaymentMethodOk(CASE item.variant = "AchBankDebit" -> "Ach"
                              [] item.variant = "SepaBankDebit" -> "Sepa"
                              [] item.variant = "BecsBankDebit" -> "Becs"
                              [] item.variant = "BacsBankDebit" -> "Bacs", None)
      [] OTHER -> NotImplemented({"stripe does not support this payment method"})

(* PaymentIntentRequest::try_from: the payment method and the shipping check *)
stripe_payment_method_try_from(item) ==
    LET created == create_stripe_payment_method(item.payment_method_type,
                                                item.payment_experience, item)
        shipping == IF created.ok
                    THEN validate_shipping_address_against_payment_method(
                             item.shipping_address, created.payment_method)
                    ELSE None
    IN  IF ~created.ok THEN created
        ELSE IF is_some(shipping) THEN shipping[1]
        ELSE created

----------------------------------------------------------------------------
(* The RouterData handed to the request transformers *)

MaxSplitItems == 2

PaymentMethodDataVariants(pmd) ==
    CASE pmd = "Wallet" ->
            {"GooglePay", "ApplePay", "PaypalRedirect", "AliPayRedirect", "AliPayHkRedirect",
             "GoPayRedirect", "KakaoPayRedirect", "GcashRedirect", "MomoRedirect",
             "TouchNGoRedirect", "MbWayRedirect", "MobilePayRedirect", "WeChatPayRedirect",
             "SamsungPay", "Paze", "TwintRedirect", "VippsRedirect", "DanaRedirect", "SwishQr",
             "AliPayQr", "AmazonPayRedirect", "ApplePayRedirect", "ApplePayThirdPartySdk",
             "GooglePayRedirect", "GooglePayThirdPartySdk", "PaypalSdk", "WeChatPayQr",
             "CashappQr", "Mifinity"}
      [] pmd = "PayLater" ->
            {"KlarnaRedirect", "AffirmRedirect", "AfterpayClearpayRedirect",
             "PayBrightRedirect", "WalleyRedirect", "AlmaRedirect", "AtomeRedirect",
             "KlarnaSdk"}
      [] pmd = "BankRedirect" ->
            {"BancontactCard", "Bizum", "Blik", "Eps", "Ideal", "OnlineBankingCzechRepublic",
             "OnlineBankingFinland", "OnlineBankingPoland", "OnlineBankingSlovakia",
             "OnlineBankingFpx", "OnlineBankingThailand", "OpenBankingUk", "Trustly",
             "Giropay", "Eft", "Interac", "LocalBankRedirect", "Przelewy24", "Sofort"}
      [] pmd = "BankDebit" ->
            {"AchBankDebit", "SepaBankDebit", "BacsBankDebit", "BecsBankDebit"}
      [] pmd = "BankTransfer" ->
            {"PermataBankTransfer", "BcaBankTransfer", "BniVaBankTransfer",
             "BriVaBankTransfer", "CimbVaBankTransfer", "DanamonVaBankTransfer",
             "MandiriVaBankTransfer", "Pix", "AchBankTransfer", "SepaBankTransfer",
             "BacsBankTransfer", "MultibancoBankTransfer", "LocalBankTransfer", "Pse"}
      [] pmd = "CardRedirect" -> {"Knet", "Benefit", "MomoAtm", "CardRedirect"}
      [] pmd = "Voucher" ->
            {"Boleto", "Alfamart", "Indomaret", "Oxxo", "SevenEleven", "Lawson", "MiniStop",
             "FamilyMart", "Seicomart", "PayEasy", "Efecty", "PagoEfectivo", "RedCompra",
             "RedPagos"}
      [] pmd = "GiftCard" -> {"PaySafeCard", "Givex"}
      [] OTHER -> {""}

(* the optional fields a scheme's transformer reads *)
FieldsRead(pmd, variant) ==
    CASE pmd = "PayLater" -> {"email", "billing.first_name", "billing.phone", "billing", "shipping"}
      [] pmd = "BankDebit" -> {"billing.first_name"}
      [] pmd \in {"Voucher", "BankTransfer"} -> {"billing.first_name", "email", "billing.phone"}
      [] pmd = "Wallet" /\ variant = "MbWayRedirect" -> {"billing.phone"}
      [] pmd = "BankRedirect" /\ variant = "BancontactCard" ->
            {"bancontact_card.card_number", "bancontact_card.card_exp_month",
             "bancontact_card.card_exp_year", "billing.first_name"}
      [] pmd = "BankRedirect" /\ variant = "Blik" -> {"blik_code"}
      [] pmd = "BankRedirect" /\ variant = "Eps" -> {"eps.bank_name", "issuer.supported"}
      [] pmd = "BankRedirect" /\ variant \notin {"BancontactCard", "Blik", "Eps"} ->
            {"issuer", "issuer.supported"}
      [] OTHER -> {}

AuthorizeItem ==
    [kind |-> "Authorize", pmd |-> "Card", variant |-> "", card_network |-> None,
     card_issuer |-> None, present |-> {}, country |-> None, customer_id |-> None,
     merchant_id |-> "merchant", payment_method_type |-> None, payment_experience |-> None,
     payment_method_token |-> None, shipping_address |-> {}, mandate_reference_id |-> None,
     setup_future_usage |-> None, off_session |-> None, is_mandate_payment |-> FALSE,
     split_payments |-> None, currency |-> "USD", amount |-> 100,
     auth_type |-> "NoThreeDs", browser_info |-> TRUE]

Options(S) == {None} \cup { Some(x) : x \in S }

(* the RouterData a connector's request transformers are handed: authorize items *)
(* of every scheme with every subset of the fields the scheme reads, card items  *)
(* of every network, recurring items, and items with split instructions          *)
RouterDataOf(connector_name) ==
    LET
        SeqsUpTo(S, n) == UNION { [1..k -> S] : k \in 0..n }
        AdyenSplitItem ==
            [amount : Options({10}), reference : {"ref"}, split_type : {"BalanceAccount", "Commission"},
             account : Options({"acct"}), description : Options({"fee"})]
        \* Option<SplitPaymentsRequest> / Option<SplitRefundsRequest>
        SplitRequests(adyen_kind) ==
            {None, Some([kind |-> "StripeSplitPayment"])}
            \cup { Some([kind |-> adyen_kind, store |-> s, split_items |-> items]) :
                     s \in Options({"store"}), items \in SeqsUpTo(AdyenSplitItem, MaxSplitItems) }
        Schemes == UNION { { <<pmd, v>> : v \in PaymentMethodDataVariants(pmd) } : pmd \in PaymentMethodData }
        \* authorize items of one scheme, with every subset of the fields it reads
        SchemeItems(pmd, variant) ==
            { [AuthorizeItem EXCEPT !.pmd = pmd, !.variant = variant, !.present = p, !.country = c,
                                    !.customer_id = cu, !.payment_method_token = t] :
                p \in SUBSET FieldsRead(pmd, variant),
                c \in IF pmd = "PayLater" THEN Options({"GB", "US"}) ELSE {None},
                cu \in IF pmd = "PayLater" THEN Options({"cust"}) ELSE {None},
                t \in IF variant = "Paze" THEN Options({"PazeDecrypt"}) ELSE {None} }
        \* card payments: every network, the issuer recognised from the number or not
        CardItems ==
            { [AuthorizeItem EXCEPT !.pmd = pmd, !.card_network = n, !.card_issuer = i,
                                    !.mandate_reference_id = m, !.present = p] :
                pmd \in {"Card", "CardDetailsForNetworkTransactionId", "NetworkToken"},
                n \in Options(CardNetwork), i \in Options({"Visa"}),
                m \in Options({"NetworkMandateId", "NetworkTokenWithNTI"}),
                p \in {{"email"}, {"email", "billing"}, {"email", "billing", "address.city"}} }
        \* recurring payments: future usage, off-session flag, customer and mandate
        RecurringItems ==
            { [AuthorizeItem EXCEPT !.pmd = scheme[1], !.variant = scheme[2],
                                    !.setup_future_usage = sfu, !.off_session = off,
                                    !.customer_id = cu, !.is_mandate_payment = imp,
                                    !.mandate_reference_id = m, !.payment_method_type = pmt_,
                                    !.present = p] :
                scheme \in {<<"Card", "">>, <<"BankDebit", "SepaBankDebit">>, <<"Voucher", "Oxxo">>,
                            <<"GiftCard", "Givex">>, <<"Wallet", "PaypalRedirect">>,
                            <<"BankRedirect", "Trustly">>, <<"NetworkToken", "">>,
                            <<"PayLater", "WalleyRedirect">>},
                sfu \in Options({"OffSession", "OnSession"}), off \in Options(BOOLEAN),
                cu \in Options({"cust"}), imp \in BOOLEAN,
                m \in Options({"ConnectorMandateId"}),
                pmt_ \in Options({"Credit", "Paypal", "Giropay"}),
                p \in {{"billing.first_name", "billing.phone", "mandate_id", "email"},
                       {"billing.first_name", "mandate_id"},
                       {"billing.first_name", "email"}} }
        \* authentication type, payment method type and browser information of the request
        BrowserItems ==
            { [AuthorizeItem EXCEPT !.pmd = scheme[1], !.variant = scheme[2],
                                    !.auth_type = a, !.browser_info = b,
                                    !.payment_method_type = pmt_, !.mandate_reference_id = m,
                                    !.customer_id = Some("cust"),
                                    !.present = {"billing.first_name", "billing.phone", "email",
                                                 "mandate_id"}] :
                scheme \in {<<"Card", "">>, <<"NetworkToken", "">>, <<"Wallet", "GooglePay">>,
                            <<"Wallet", "GoPayRedirect">>, <<"Wallet", "PaypalRedirect">>,
                            <<"PayLater", "WalleyRedirect">>, <<"BankRedirect", "Trustly">>,
                            <<"BankDebit", "SepaBankDebit">>, <<"Voucher", "Oxxo">>,
                            <<"BankTransfer", "Pix">>, <<"GiftCard", "Givex">>,
                            <<"CardRedirect", "Knet">>},
                a \in {"ThreeDs", "NoThreeDs"}, b \in BOOLEAN,
                pmt_ \in Options({"GoPay", "GooglePay", "Paypal"}),
                m \in Options({"ConnectorMandateId"}) }
        SplitItemsOf(kind) ==
            IF kind = "Authorize"
            THEN { [AuthorizeItem EXCEPT !.split_payments = s] : s \in SplitRequests("AdyenSplitPayment") }
            ELSE IF kind = "Capture"
            THEN { [kind |-> "Capture", split_payments |-> s, multiple_capture_data |-> mc,
                    connector_request_reference_id |-> "attempt", currency |-> "USD", amount |-> 100] :
                     s \in SplitRequests("AdyenSplitPayment"), mc \in Options({"capture"}) }
            ELSE { [kind |-> "Refund", split_refunds |-> s, refund_id |-> "refund",
                    currency |-> "USD", amount |-> 100] : s \in SplitRequests("AdyenSplitRefund") }
        \* dispute evidence: three of the files vary, each with or without its file type
        EvidenceItems ==
            { [kind |-> "SubmitEvidence", connector_auth_type |-> auth,
               connector_dispute_id |-> "dispute",
               shipping_documentation |-> sd, shipping_documentation_file_type |-> sdt,
               receipt |-> r, receipt_file_type |-> rt,
               refund_policy |-> rp, refund_policy_file_type |-> rpt,
               invoice_showing_distinct_transactions |-> None,
               invoice_showing_distinct_transactions_file_type |-> None,
               customer_communication |-> None, customer_communication_file_type |-> None,
               recurring_transaction_agreement |-> None,
               recurring_transaction_agreement_file_type |-> None,
               uncategorized_file |-> None, uncategorized_file_type |-> None,
               cancellation_policy |-> None, cancellation_policy_file_type |-> None,
               customer_signature |-> None, customer_signature_file_type |-> None,
               service_documentation |-> None, service_documentation_file_type |-> None] :
                auth \in {"SignatureKey", "HeaderKey"},
                sd \in Options({<<80, 255>>}), sdt \in Options({"image/png", "application/pdf"}),
                r \in Options({<<80>>}), rt \in Options({"image/png", "application/pdf"}),
                rp \in Options({<<82>>}), rpt \in Options({"application/pdf"}) }
        BoaItems ==
            { [AuthorizeItem EXCEPT !.pmd = scheme[1], !.variant = scheme[2], !.card_network = n,
                                    !.card_issuer = i, !.payment_method_token = t, !.present = p] :
                scheme \in { sc \in Schemes : sc[1] = "Wallet" =>
                                                 sc[2] \in {"ApplePay", "GooglePay", "PaypalRedirect"} },
                n \in Options({"Visa", "Interac"}), i \in Options({"Visa"}),
                t \in Options({"ApplePayDecrypt", "Token", "PazeDecrypt"}),
                p \in SUBSET {"email", "connector_mandate_id", "recurring_mandate_payment_data"} }
        StripeItems ==
            { [AuthorizeItem EXCEPT !.pmd = scheme[1], !.variant = scheme[2],
                                    !.payment_method_type = pmt_, !.payment_experience = e,
                                    !.shipping_address = sh, !.present = p] :
                scheme \in { sc \in Schemes :
                               /\ sc[1] = "Wallet" => sc[2] \in {"ApplePay", "GooglePay"}
                               /\ sc[1] = "BankRedirect" => sc[2] \in {"Eps", "Ideal", "Sofort", "Blik"}
                               /\ sc[1] \in {"Voucher", "BankTransfer", "CardRedirect", "GiftCard"}
                                    => sc[2] \in {"Oxxo", "Pix", "Knet", "Givex"} },
                pmt_ \in Options({"Klarna", "AfterpayClearpay", "Walley", "Eps", "Sofort"}),
                e \in Options({"RedirectToUrl", "InvokeSdkClient"}),
                sh \in SUBSET {"name", "line1", "country", "zip"},
                p \in SUBSET {"issuer.supported", "payment_data.base64"} }
    IN  CASE connector_name = "Adyen" ->
                UNION { SchemeItems(sc[1], sc[2]) : sc \in Schemes } \cup CardItems
                \cup RecurringItems \cup BrowserItems \cup SplitItemsOf("Authorize")
                \cup SplitItemsOf("Capture") \cup SplitItemsOf("Refund") \cup EvidenceItems
          [] connector_name = "Bankofamerica" -> BoaItems
          [] connector_name = "Stripe" -> StripeItems

----------------------------------------------------------------------------
(* Dispute evidence: Evidence, DefenseDocuments *)

\* the evidence files of SubmitEvidenceRequestData, in the order they are pushed
EvidenceFiles ==
    <<"shipping_documentation", "receipt", "invoice_showing_distinct_transactions",
      "customer_communication", "refund_policy", "recurring_transaction_agreement",
      "uncategorized_file", "cancellation_policy", "customer_signature",
      "service_documentation">>

\* the request field that holds the file type supplied for an evidence file
file_type_field(file) ==
    IF file = "uncategorized_file" THEN "uncategorized_file_type"
    ELSE IF file = "shipping_documentation" THEN "shipping_documentation_file_type"
    ELSE IF file = "receipt" THEN "receipt_file_type"
    ELSE IF file = "invoice_showing_distinct_transactions"
         THEN "invoice_showing_distinct_transactions_file_type"
    ELSE IF file = "customer_communication" THEN "customer_communication_file_type"
    ELSE IF file = "refund_policy" THEN "refund_policy_file_type"
    ELSE IF file = "recurring_transaction_agreement"
         THEN "recurring_transaction_agreement_file_type"
    ELSE IF file = "cancellation_policy" THEN "cancellation_policy_file_type"
    ELSE IF file = "customer_signature" THEN "customer_signature_file_type"
    ELSE "service_documentation_file_type"

\* String::from_utf8_lossy: a byte that is no valid UTF-8 becomes U+FFFD (65533)
get_content(item) == [i \in 1..Len(item) |-> IF item[i] < 128 THEN item[i] ELSE 65533]

\* the field get_defence_documents reads content_type from, per evidence file
content_type_field(file) ==
    IF file = "shipping_documentation" THEN "receipt_file_type"
    ELSE IF file = "receipt" THEN "shipping_documentation_file_type"
    ELSE file_type_field(file)

RECURSIVE push_defense_documents(_, _, _)
push_defense_documents(item, i, defense_documents) ==
    IF i > Len(EvidenceFiles) THEN defense_documents
    ELSE push_defense_documents(item, i + 1,
            IF is_some(item[EvidenceFiles[i]])
            THEN Append(defense_documents,
                        [content |-> get_content(item[EvidenceFiles[i]][1]),
                         content_type |-> item[content_type_field(EvidenceFiles[i])],
                         defense_document_type_code |-> "DefenseMaterial"])
            ELSE defense_documents)

get_defence_documents(item) ==
    LET defense_documents == push_defense_documents(item, 1, <<>>)
    IN  IF defense_documents = <<>> THEN None ELSE Some(defense_documents)

get_merchant_account_code(auth_type) ==
    IF auth_type \in {"BodyKey", "SignatureKey"}
    THEN [ok |-> TRUE, merchant_account |-> "merchant_account"]
    ELSE ConnectorError("FailedToObtainAuthType", "", {})

\* impl TryFrom<&SubmitEvidenceRouterData> for Evidence
evidence_try_from(item) ==
    LET merchant_account_code == get_merchant_account_code(item.connector_auth_type)
        documents == get_defence_documents(item)
    IN  IF ~merchant_account_code.ok THEN merchant_account_code
        ELSE IF ~is_some(documents) THEN MissingRequiredField("Missing Defence Documents")
        ELSE [ok |-> TRUE, defense_documents |-> documents[1],
              merchant_account_code |-> merchant_account_code.merchant_account,
              dispute_psp_reference |-> item.connector_dispute_id]

(* Building connector requests *)

InitRequest ==
    /\ connector \in {"Adyen", "Bankofamerica", "Stripe"}
    /\ is_manual_capture = FALSE
    /\ pmt = None
    /\ status = "Started"
    /\ response = NoResponse
    /\ inflight = None
    /\ handled = FALSE
    /\ outcome = ""
    /\ event = ""
    /\ request = None
    /\ MockDbIdle /\ RecoveryIdle /\ PubSubIdle

(* the core hands a RouterData to the connector's request transformer *)
Submit ==
    /\ inflight = None
    /\ \E item \in RouterDataOf(connector) : inflight' = Some(item)
    /\ handled' = FALSE
    /\ UNCHANGED <<connector, is_manual_capture, pmt, status, response, outcome, event, request,
                 backendVars>>

(* the transformer returns its Result *)
Built(result) ==
    /\ request' = Some(result)
    /\ outcome' = IF result.ok THEN "Ok" ELSE result.err
    /\ handled' = TRUE
    /\ UNCHANGED <<connector, is_manual_capture, pmt, status, response, inflight, event, backendVars>>

AdyenPaymentsRequest ==
    /\ connector = "Adyen" /\ Pending("Authorize")
    /\ Built(adyen_payments_request_try_from(inflight[1]))

AdyenCaptureRequest ==
    /\ connector = "Adyen" /\ Pending("Capture")
    /\ Built(adyen_capture_request_try_from(inflight[1]))

AdyenRefundRequest ==
    /\ connector = "Adyen" /\ Pending("Refund")
    /\ Built(adyen_refund_request_try_from(inflight[1]))

AdyenSubmitEvidence ==
    /\ connector = "Adyen" /\ Pending("SubmitEvidence")
    /\ Built(evidence_try_from(inflight[1]))

BoaPaymentsRequest ==
    /\ connector = "Bankofamerica" /\ Pending("Authorize")
    /\ Built(boa_payments_request_try_from(inflight[1]))

StripePaymentIntentRequest ==
    /\ connector = "Stripe" /\ Pending("Authorize")
    /\ Built(stripe_payment_method_try_from(inflight[1]))

(* Adyen answers a request that carried splits: the response repeats the store *)
(* and splits of the request on the wire                                       *)
AdyenSplitsEcho ==
    /\ connector = "Adyen" /\ is_some(inflight) /\ handled
    /\ inflight[1].kind \in {"Authorize", "Refund"}
    /\ is_some(request) /\ request[1].ok /\ is_some(request[1].splits)
    /\ inflight' = Some([kind |-> "AdyenSplitsResponse", store |-> request[1].store,
                         splits |-> request[1].splits,
                         data |-> IF inflight[1].kind = "Authorize"
                                  THEN inflight[1].split_payments[1]
                                  ELSE inflight[1].split_refunds[1]])
    /\ handled' = FALSE
    /\ UNCHANGED <<connector, is_manual_capture, pmt, status, response, outcome, event, request,
                 backendVars>>

(* get_adyen_response: charges of the TransactionResponse *)
AdyenChargesResponse ==
    /\ connector = "Adyen" /\ Pending("AdyenSplitsResponse")
    /\ response' = ResponseOk([charges |->
                       IF is_some(inflight[1].splits)
                       THEN Some(construct_charge_response(inflight[1].store,
                                                           inflight[1].splits[1]))
                       ELSE None])
    /\ status' = "Pending"
    /\ outcome' = "Ok"
    /\ handled' = TRUE
    /\ UNCHANGED <<connector, is_manual_capture, pmt, inflight, event, request, backendVars>>

(* the caller takes the result; the next RouterData starts afresh *)
Finish ==
    /\ is_some(inflight) /\ handled
    /\ inflight' = None
    /\ handled' = FALSE
    /\ outcome' = ""
    /\ request' = None
    /\ status' = "Started"
    /\ response' = NoResponse
    /\ UNCHANGED <<connector, is_manual_capture, pmt, event, backendVars>>

NextRequest ==
    \/ Submit
    \/ AdyenPaymentsRequest
    \/ AdyenCaptureRequest
    \/ AdyenRefundRequest
    \/ AdyenSubmitEvidence
    \/ BoaPaymentsRequest
    \/ StripePaymentIntentRequest
    \/ AdyenSplitsEcho
    \/ AdyenChargesResponse
    \/ Finish

SpecRequest == InitRequest /\ [][NextRequest]_vars

----------------------------------------------------------------------------
(* MockDb: PaymentIntentInterface over a Vec<PaymentIntent> behind a mutex *)

\* calls one caller makes
MaxCalls == 3

\* largest number of payment intents the Vec holds
MaxIntents == 2

\* the tasks that call MockDb concurrently
Callers == {1, 2}

PaymentIds == {"pay_1", "pay_2"}

\* PaymentIntentNew: the fields the later calls read or change
PaymentIntentNew ==
    [payment_id : PaymentIds, merchant_id : {"merchant"}, status : {"RequiresPaymentMethod"},
     metadata : {None}, guest_customer_data_encodes : BOOLEAN]

\* PaymentIntentUpdate: two variants that change different fields
PaymentIntentUpdate ==
    {[kind |-> "MetadataUpdate", metadata |-> "meta"],
     [kind |-> "PGStatusUpdate", status |-> "Processing"]}

\* a caller between two calls, holding the payment intent its last call returned
CallerIdle(held, calls) ==
    [pc |-> "idle", op |-> "", new |-> None, payment_id |-> "", this |-> None,
     update |-> None, payment_intent |-> None, held |-> held, returned |-> "", calls |-> calls]

\* self.payment_intents.lock().await completes when nobody holds the mutex
mutex_unguarded(holder) == TRUE

mutex_free(holder) == holder = None

\* update.to_storage_model().apply_changeset(source): the fields the update names
\* are set, every other field is the source's
apply_changeset(update, source) ==
    IF update.kind = "MetadataUpdate" THEN [source EXCEPT !.metadata = Some(update.metadata)]
    ELSE [source EXCEPT !.status = update.status]

\* the index of the first element of the Vec that satisfies a predicate, 0 when none
find_by_id(payment_intents_, id) ==
    LET found == { i \in 1..Len(payment_intents_) : payment_intents_[i].id = id }
    IN  IF found = {} THEN 0 ELSE CHOOSE i \in found : \A j \in found : i <= j

find_by_payment_id(payment_intents_, payment_id, merchant_id) ==
    LET found == { i \in 1..Len(payment_intents_) :
                     /\ payment_intents_[i].payment_id = payment_id
                     /\ payment_intents_[i].merchant_id = merchant_id }
    IN  IF found = {} THEN 0 ELSE CHOOSE i \in found : \A j \in found : i <= j

InitMockDb ==
    /\ payment_intents = <<>>
    /\ lock = None
    /\ callers = [c \in Callers |-> CallerIdle(None, 0)]
    /\ AttemptIdle /\ RecoveryIdle /\ PubSubIdle

(* a task calls insert, find or update; update passes the intent the task holds *)
CallMockDb(c) ==
    /\ callers[c].pc = "idle" /\ callers[c].calls < MaxCalls
    /\ \/ /\ Len(payment_intents) < MaxIntents
          /\ \E new \in PaymentIntentNew :
                callers' = [callers EXCEPT ![c].pc = "waiting", ![c].op = "insert",
                                           ![c].new = Some(new), ![c].returned = "",
                                           ![c].calls = @ + 1]
       \/ \E payment_id \in PaymentIds :
                callers' = [callers EXCEPT ![c].pc = "waiting", ![c].op = "find",
                                           ![c].payment_id = payment_id, ![c].returned = "",
                                           ![c].calls = @ + 1]
       \/ /\ is_some(callers[c].held)
          /\ \E update \in PaymentIntentUpdate :
                callers' = [callers EXCEPT ![c].pc = "waiting", ![c].op = "update",
                                           ![c].this = callers[c].held,
                                           ![c].update = Some(update), ![c].returned = "",
                                           ![c].calls = @ + 1]
    /\ UNCHANGED <<payment_intents, lock, attemptVars, recoveryVars, pubSubVars>>

(* let mut payment_intents = self.payment_intents.lock().await *)
LockPaymentIntents(c) ==
    /\ callers[c].pc = "waiting"
    /\ mutex_free(lock)
    /\ lock' = Some(c)
    /\ callers' = [callers EXCEPT ![c].pc = "locked"]
    /\ UNCHANGED <<payment_intents, attemptVars, recoveryVars, pubSubVars>>

(* insert_payment_intent: the PaymentIntent is built with id = payment_intents.len() *)
InsertBuild(c) ==
    /\ callers[c].pc = "locked" /\ callers[c].op = "insert" /\ is_none(callers[c].payment_intent)
    /\ LET new == callers[c].new[1]
       IN  IF Len(payment_intents) > 2147483647
           THEN /\ callers' = [callers EXCEPT ![c] = [CallerIdle(@.held, @.calls) EXCEPT
                                                        !.op = "insert", !.returned = "MockDbError"]]
                /\ lock' = None
           ELSE IF ~new.guest_customer_data_encodes
           THEN /\ callers' = [callers EXCEPT ![c] = [CallerIdle(@.held, @.calls) EXCEPT
                                                        !.op = "insert", !.returned = "CustomerRedacted"]]
                /\ lock' = None
           ELSE /\ callers' = [callers EXCEPT ![c].payment_intent =
                                  Some([id |-> Len(payment_intents), payment_id |-> new.payment_id,
                                        merchant_id |-> new.merchant_id, status |-> new.status,
                                        metadata |-> new.metadata])]
                /\ UNCHANGED lock
    /\ UNCHANGED <<payment_intents, attemptVars, recoveryVars, pubSubVars>>

(* insert_payment_intent: payment_intents.push(payment_intent.clone()); Ok(payment_intent) *)
InsertPush(c) ==
    /\ callers[c].pc = "locked" /\ callers[c].op = "insert" /\ is_some(callers[c].payment_intent)
    /\ payment_intents' = Append(payment_intents, callers[c].payment_intent[1])
    /\ callers' = [callers EXCEPT ![c] = [CallerIdle(callers[c].payment_intent, @.calls) EXCEPT
                                             !.op = "insert", !.returned = "Ok"]]
    /\ lock' = None
    /\ UNCHANGED <<attemptVars, recoveryVars, pubSubVars>>

(* find_payment_intent_by_payment_id_merchant_id: .find(..).cloned().unwrap() *)
FindPaymentIntent(c) ==
    /\ callers[c].pc = "locked" /\ callers[c].op = "find"
    /\ LET i == find_by_payment_id(payment_intents, callers[c].payment_id, "merchant")
       IN  callers' = [callers EXCEPT ![c] =
                IF i = 0
                THEN [@ EXCEPT !.pc = "panicked"]
                ELSE [CallerIdle(Some(payment_intents[i]), @.calls) EXCEPT
                         !.op = "find", !.returned = "Ok"]]
    /\ lock' = None
    /\ UNCHANGED <<payment_intents, attemptVars, recoveryVars, pubSubVars>>

(* update_payment_intent: the element with this.id becomes the changeset applied to this *)
UpdatePaymentIntent(c) ==
    /\ callers[c].pc = "locked" /\ callers[c].op = "update"
    /\ LET this == callers[c].this[1]
           i == find_by_id(payment_intents, this.id)
           updated == apply_changeset(callers[c].update[1], this)
       IN  IF i = 0
           THEN /\ callers' = [callers EXCEPT ![c].pc = "panicked"]
                /\ UNCHANGED payment_intents
           ELSE /\ payment_intents' = [payment_intents EXCEPT ![i] = updated]
                /\ callers' = [callers EXCEPT ![c] =
                                  [CallerIdle(Some(updated), @.calls) EXCEPT
                                      !.op = "update", !.this = callers[c].this,
                                      !.update = callers[c].update, !.returned = "Ok"]]
    /\ lock' = None
    /\ UNCHANGED <<attemptVars, recoveryVars, pubSubVars>>

NextMockDb ==
    \/ \E c \in Callers : CallMockDb(c)
    \/ \E c \in Callers : LockPaymentIntents(c)
    \/ \E c \in Callers : InsertBuild(c)
    \/ \E c \in Callers : InsertPush(c)
    \/ \E c \in Callers : FindPaymentIntent(c)
    \/ \E c \in Callers : UpdatePaymentIntent(c)

SpecMockDb == InitMockDb /\ [][NextMockDb]_vars

----------------------------------------------------------------------------
(* Revenue recovery: recovery_incoming_webhook_flow *)

\* the recovery webhooks that are handled concurrently
Webhooks == {1, 2}

\* what a webhook carries and what the caller established about it
WebhookInputs ==
    [source_verified : BOOLEAN, connector_name : {"chargebee", "unknown"},
     merchant_reference_id : {"inv_1", "inv_2"},
     event_type : {"RecoveryPaymentFailure", "RecoveryPaymentSuccess", "RecoveryPaymentPending",
                   "RecoveryInvoiceCancel", "PaymentIntentSuccess"}]

\* when(!source_verified, || Err(WebhookAuthenticationFailed))?
source_verification_skipped(source_verified) == "Ok"

source_verification(source_verified) ==
    IF ~source_verified THEN "WebhookAuthenticationFailed" ELSE "Ok"

\* IncomingWebhookEvent::is_recovery_transaction_event
is_recovery_transaction_event(event_type) ==
    event_type \in {"RecoveryPaymentFailure", "RecoveryPaymentSuccess", "RecoveryPaymentPending"}

\* RecoveryAction::get_action(event_type, attempt_triggered_by)
get_action(event_type, attempt_triggered_by) ==
    CASE event_type = "RecoveryPaymentFailure" ->
            (IF attempt_triggered_by = Some("Internal") THEN "NoAction"
             ELSE "ScheduleFailedPayment")
      [] event_type = "RecoveryPaymentSuccess" ->
            (IF attempt_triggered_by = Some("Internal") THEN "NoAction"
             ELSE "SuccessPaymentExternal")
      [] event_type = "RecoveryPaymentPending" -> "PendingPayment"
      [] event_type = "RecoveryInvoiceCancel" -> "CancelInvoice"
      [] OTHER -> "InvalidAction"

\* the webhooks arrive; the payments core holds nothing for their invoices, or
\* holds the intent of invoice inv_2 with an attempt hyperswitch made itself
InitRecovery ==
    /\ \E inputs \in [Webhooks -> WebhookInputs] :
          flows = [w \in Webhooks |->
                     [pc |-> "start", source_verified |-> inputs[w].source_verified,
                      connector_name |-> inputs[w].connector_name,
                      merchant_reference_id |-> inputs[w].merchant_reference_id,
                      event_type |-> inputs[w].event_type,
                      payment_intent |-> None, payment_attempt |-> None,
                      result |-> "", calls |-> {}]]
    /\ \/ intents = {} /\ attempts = {}
       \/ /\ intents = {[payment_id |-> 0, merchant_reference_id |-> "inv_2"]}
          /\ attempts = {[payment_id |-> 0, attempt_id |-> 0,
                          connector_transaction_id |-> "txn", triggered_by |-> "Internal"]}
    /\ process_tracker = {}
    /\ AttemptIdle /\ MockDbIdle /\ PubSubIdle

(* source verification, then Connector::from_str(connector_name) *)
StartRecovery(w) ==
    /\ flows[w].pc = "start"
    /\ LET verified == source_verification(flows[w].source_verified)
       IN  flows' = [flows EXCEPT ![w] =
                IF verified # "Ok" THEN [@ EXCEPT !.pc = "returned", !.result = verified]
                ELSE IF @.connector_name = "unknown"
                THEN [@ EXCEPT !.pc = "returned", !.result = "InvoiceWebhookProcessingFailed"]
                ELSE [@ EXCEPT !.pc = "invoice_details"]]
    /\ UNCHANGED <<intents, attempts, process_tracker, attemptVars, mockDbVars, pubSubVars>>

(* get_billing_connector_payment_details, then get_recovery_invoice_details *)
InvoiceDetails(w) ==
    /\ flows[w].pc = "invoice_details"
    /\ \E r \in {"Ok", "AdditionalRevenueRecoveryCallFailed", "InvoiceWebhookProcessingFailed"} :
          flows' = [flows EXCEPT ![w] =
                IF r = "Ok" THEN [@ EXCEPT !.pc = "get_payment_intent"]
                ELSE [@ EXCEPT !.pc = "returned", !.result = r]]
    /\ UNCHANGED <<intents, attempts, process_tracker, attemptVars, mockDbVars, pubSubVars>>

(* get_payment_intent: the intent of the merchant reference id, None when not found *)
GetPaymentIntent(w) ==
    /\ flows[w].pc = "get_payment_intent"
    /\ \E fetched \in BOOLEAN :
          LET found == { i \in intents :
                           i.merchant_reference_id = flows[w].merchant_reference_id }
          IN  flows' = [flows EXCEPT ![w] =
                IF ~fetched
                THEN [@ EXCEPT !.pc = "returned", !.result = "PaymentIntentFetchFailed",
                               !.calls = @ \cup {"get_payment_intent"}]
                ELSE IF found = {}
                THEN [@ EXCEPT !.pc = "create_payment_intent",
                               !.calls = @ \cup {"get_payment_intent"}]
                ELSE [@ EXCEPT !.pc = "get_payment_attempt",
                               !.payment_intent = Some(CHOOSE i \in found : TRUE),
                               !.calls = @ \cup {"get_payment_intent"}]]
    /\ UNCHANGED <<intents, attempts, process_tracker, attemptVars, mockDbVars, pubSubVars>>

(* create_payment_intent: a freshly generated payment id, PaymentIntentCreate *)
CreatePaymentIntent(w) ==
    /\ flows[w].pc = "create_payment_intent"
    /\ \E created \in BOOLEAN :
          LET payment_intent == [payment_id |-> w,
                                 merchant_reference_id |-> flows[w].merchant_reference_id]
          IN  IF created
              THEN /\ intents' = intents \cup {payment_intent}
                   /\ flows' = [flows EXCEPT ![w].pc = "get_payment_attempt",
                                             ![w].payment_intent = Some(payment_intent),
                                             ![w].calls = @ \cup {"create_payment_intent"}]
              ELSE /\ UNCHANGED intents
                   /\ flows' = [flows EXCEPT ![w].pc = "returned",
                                             ![w].result = "PaymentIntentCreateFailed",
                                             ![w].calls = @ \cup {"create_payment_intent"}]
    /\ UNCHANGED <<attempts, process_tracker, attemptVars, mockDbVars, pubSubVars>>

(* get_recovery_payment_attempt: for a transaction event, the attempt of the *)
(* connector transaction, None when the intent has none                      *)
GetPaymentAttempt(w) ==
    /\ flows[w].pc = "get_payment_attempt"
    /\ IF ~is_recovery_transaction_event(flows[w].event_type)
       THEN flows' = [flows EXCEPT ![w].pc = "action"]
       ELSE \E r \in {"Ok", "TransactionWebhookProcessingFailed", "PaymentAttemptFetchFailed"} :
              LET found == { a \in attempts :
                               /\ a.payment_id = flows[w].payment_intent[1].payment_id
                               /\ a.connector_transaction_id = "txn" }
              IN  flows' = [flows EXCEPT ![w] =
                    IF r = "TransactionWebhookProcessingFailed"
                    THEN [@ EXCEPT !.pc = "returned", !.result = r]
                    ELSE IF r = "PaymentAttemptFetchFailed"
                    THEN [@ EXCEPT !.pc = "returned", !.result = r,
                                   !.calls = @ \cup {"get_payment_attempt"}]
                    ELSE IF found = {}
                    THEN [@ EXCEPT !.pc = "record_payment_attempt",
                                   !.calls = @ \cup {"get_payment_attempt"}]
                    ELSE [@ EXCEPT !.pc = "action",
                                   !.payment_attempt = Some(CHOOSE a \in found : TRUE),
                                   !.calls = @ \cup {"get_payment_attempt"}]]
    /\ UNCHANGED <<intents, attempts, process_tracker, attemptVars, mockDbVars, pubSubVars>>

(* record_payment_attempt: the external attempt is recorded, triggered_by External *)
RecordPaymentAttempt(w) ==
    /\ flows[w].pc = "record_payment_attempt"
    /\ \E recorded \in BOOLEAN :
          LET payment_attempt == [payment_id |-> flows[w].payment_intent[1].payment_id,
                                  attempt_id |-> w, connector_transaction_id |-> "txn",
                                  triggered_by |-> "External"]
          IN  IF recorded
              THEN /\ attempts' = attempts \cup {payment_attempt}
                   /\ flows' = [flows EXCEPT ![w].pc = "action",
                                             ![w].payment_attempt = Some(payment_attempt),
                                             ![w].calls = @ \cup {"record_payment_attempt"}]
              ELSE /\ UNCHANGED attempts
                   /\ flows' = [flows EXCEPT ![w].pc = "returned",
                                             ![w].result = "PaymentAttemptFetchFailed",
                                             ![w].calls = @ \cup {"record_payment_attempt"}]
    /\ UNCHANGED <<intents, process_tracker, attemptVars, mockDbVars, pubSubVars>>

(* match action: todo!() for CancelInvoice, insert_execute_pcr_task for *)
(* ScheduleFailedPayment, Ok(NoEffect) for every other action            *)
RecoveryAction(w) ==
    /\ flows[w].pc = "action"
    /\ LET attempt_triggered_by ==
               IF is_some(flows[w].payment_attempt)
               THEN Some(flows[w].payment_attempt[1].triggered_by) ELSE None
           action == get_action(flows[w].event_type, attempt_triggered_by)
       IN  CASE action = "CancelInvoice" ->
                   /\ flows' = [flows EXCEPT ![w].pc = "panicked"]
                   /\ UNCHANGED process_tracker
             [] action = "ScheduleFailedPayment" ->
                   \E r \in {"Ok", "ScheduleTimeFetchFailed", "ProcessTrackerResponseError"} :
                      IF r = "ScheduleTimeFetchFailed"
                      THEN /\ flows' = [flows EXCEPT ![w].pc = "returned",
                                            ![w].result = "InvoiceWebhookProcessingFailed"]
                           /\ UNCHANGED process_tracker
                      ELSE IF is_none(flows[w].payment_attempt)
                      THEN /\ flows' = [flows EXCEPT ![w].pc = "returned",
                                            ![w].result = "InvoiceWebhookProcessingFailed"]
                           /\ UNCHANGED process_tracker
                      ELSE IF r = "ProcessTrackerResponseError"
                      THEN /\ flows' = [flows EXCEPT ![w].pc = "returned",
                                            ![w].result = "InvoiceWebhookProcessingFailed",
                                            ![w].calls = @ \cup {"insert_process"}]
                           /\ UNCHANGED process_tracker
                      ELSE /\ process_tracker' = process_tracker \cup
                                  {[payment_id |-> flows[w].payment_intent[1].payment_id,
                                    payment_attempt_id |-> flows[w].payment_attempt[1].attempt_id]}
                           /\ flows' = [flows EXCEPT ![w].pc = "returned",
                                            ![w].result = "Payment",
                                            ![w].calls = @ \cup {"insert_process"}]
             [] OTHER ->
                   /\ flows' = [flows EXCEPT ![w].pc = "returned", ![w].result = "NoEffect"]
                   /\ UNCHANGED process_tracker
    /\ UNCHANGED <<intents, attempts, attemptVars, mockDbVars, pubSubVars>>

NextRecovery ==
    \/ \E w \in Webhooks : StartRecovery(w)
    \/ \E w \in Webhooks : InvoiceDetails(w)
    \/ \E w \in Webhooks : GetPaymentIntent(w)
    \/ \E w \in Webhooks : CreatePaymentIntent(w)
    \/ \E w \in Webhooks : GetPaymentAttempt(w)
    \/ \E w \in Webhooks : RecordPaymentAttempt(w)
    \/ \E w \in Webhooks : RecoveryAction(w)

SpecRecovery == InitRecovery /\ [][NextRecovery]_vars

----------------------------------------------------------------------------
(* Cache invalidation over Redis pub/sub: PubSubInterface::on_message *)

\* messages the channel holds at most before the subscriber receives them
MaxMessages == 2

\* values published on the channel: "<kind>,<key>" for a cache kind, or anything else
ChannelMessages ==
    {<<"config", "k1">>, <<"accounts", "k1">>, <<"tokens", "k1">>, <<"garbage">>}

\* CacheKind::try_from(RedisValue): the prefix names the cache, the rest is the key
cache_kind_try_from(value) ==
    IF Len(value) = 2 /\ value[1] = "config" THEN [ok |-> TRUE, kind |-> "Config", key |-> value[2]]
    ELSE IF Len(value) = 2 /\ value[1] = "accounts"
    THEN [ok |-> TRUE, kind |-> "Accounts", key |-> value[2]]
    ELSE [ok |-> FALSE, kind |-> "OnMessageError", key |-> ""]

\* match key { Config(key) => CONFIG_CACHE.invalidate(key), Accounts(key) =>
\* ACCOUNTS_CACHE.invalidate(key) }: the two caches afterwards
invalidate_config_cache_only(key, config_cache, accounts_cache) ==
    [config |-> config_cache \ {key.key}, accounts |-> accounts_cache]

invalidate(key, config_cache, accounts_cache) ==
    IF key.kind = "Config"
    THEN [config |-> config_cache \ {key.key}, accounts |-> accounts_cache]
    ELSE [config |-> config_cache, accounts |-> accounts_cache \ {key.key}]

\* the subscriber has subscribed and on_message waits for the first message
InitPubSub ==
    /\ rx = <<>>
    /\ CONFIG_CACHE = {} /\ ACCOUNTS_CACHE = {} /\ redis_keys = {}
    /\ subscriber = [pc |-> "recv", message |-> None, key |-> None, errors |-> {}]
    /\ AttemptIdle /\ MockDbIdle /\ RecoveryIdle

(* publish: another instance announces that a key changed *)
Publish ==
    /\ Len(rx) < MaxMessages
    /\ \E value \in ChannelMessages : rx' = Append(rx, value)
    /\ UNCHANGED <<CONFIG_CACHE, ACCOUNTS_CACHE, redis_keys, subscriber, attemptVars, mockDbVars,
                   recoveryVars>>

(* a request of this instance reads a key and caches it, in Redis and in memory *)
Populate ==
    /\ \E kind \in {"Config", "Accounts"}, key \in {"k1"} :
          /\ CONFIG_CACHE' = IF kind = "Config" THEN CONFIG_CACHE \cup {key} ELSE CONFIG_CACHE
          /\ ACCOUNTS_CACHE' = IF kind = "Accounts" THEN ACCOUNTS_CACHE \cup {key}
                               ELSE ACCOUNTS_CACHE
          /\ redis_keys' = redis_keys \cup {key}
    /\ UNCHANGED <<rx, subscriber, attemptVars, mockDbVars, recoveryVars>>

(* while let Ok(message) = rx.recv().await: the next message, or the loop ends *)
Recv ==
    /\ subscriber.pc = "recv"
    /\ \/ /\ rx # <<>>
          /\ subscriber' = [subscriber EXCEPT !.pc = "received", !.message = Some(Head(rx)),
                                              !.key = None]
          /\ rx' = Tail(rx)
       \/ /\ subscriber' = [subscriber EXCEPT !.pc = "stopped", !.message = None, !.key = None]
          /\ UNCHANGED rx
    /\ UNCHANGED <<CONFIG_CACHE, ACCOUNTS_CACHE, redis_keys, attemptVars, mockDbVars, recoveryVars>>

(* the message is decoded; an undecodable one is logged and skipped, a decodable *)
(* one invalidates the entry of its cache                                        *)
InvalidateMessage ==
    /\ subscriber.pc = "received"
    /\ LET key == cache_kind_try_from(subscriber.message[1])
           caches == invalidate(key, CONFIG_CACHE, ACCOUNTS_CACHE)
       IN  IF ~key.ok
           THEN /\ subscriber' = [subscriber EXCEPT !.pc = "recv",
                                     !.errors = @ \cup {"value_conversion_err"}]
                /\ UNCHANGED <<CONFIG_CACHE, ACCOUNTS_CACHE>>
           ELSE /\ CONFIG_CACHE' = caches.config
                /\ ACCOUNTS_CACHE' = caches.accounts
                /\ subscriber' = [subscriber EXCEPT !.pc = "delete_key", !.key = Some(key)]
    /\ UNCHANGED <<rx, redis_keys, attemptVars, mockDbVars, recoveryVars>>

(* self.delete_key(key).await: a failure is logged and the loop goes on *)
DeleteKey ==
    /\ subscriber.pc = "delete_key"
    /\ \E deleted \in BOOLEAN :
          IF deleted
          THEN /\ redis_keys' = redis_keys \ {subscriber.key[1].key}
               /\ subscriber' = [subscriber EXCEPT !.pc = "recv"]
          ELSE /\ UNCHANGED redis_keys
               /\ subscriber' = [subscriber EXCEPT !.pc = "recv",
                                    !.errors = @ \cup {"delete_key"}]
    /\ UNCHANGED <<rx, CONFIG_CACHE, ACCOUNTS_CACHE, attemptVars, mockDbVars, recoveryVars>>

NextPubSub ==
    \/ Publish
    \/ Populate
    \/ Recv
    \/ InvalidateMessage
    \/ DeleteKey

SpecPubSub == InitPubSub /\ [][NextPubSub]_vars

\* the runtime keeps polling the on_message task: a received message is worked on
SpecPubSubLive == SpecPubSub /\ WF_vars(InvalidateMessage) /\ WF_vars(DeleteKey)

----------------------------------------------------------------------------
(* Properties *)

(* the transformer has consumed a message of this kind and has returned *)
Handled(kind) == is_some(inflight) /\ handled /\ inflight[1].kind = kind

(* the AdyenWebhookResponse built from the webhook in flight *)
InflightResource == AdyenWebhookResource(inflight[1])

C2_AuthorisedFollowsCaptureMode ==
    /\ (Handled("AdyenPaymentResponse") /\ outcome = "Ok"
        /\ inflight[1].result_code = "Authorised")
       => status = IF is_manual_capture THEN "Authorized" ELSE "Charged"
    /\ (Handled("AdyenWebhookResource") /\ InflightResource.status = "Authorised")
       => /\ outcome = "Ok"
          /\ status = IF is_manual_capture THEN "Authorized" ELSE "Charged"

C2_Witness ==
    /\ Handled("AdyenPaymentResponse")
    /\ inflight[1].result_code = "Authorised"
    /\ is_manual_capture
    /\ status = "Authorized"

(* C3 as claimed: for every connector-reported status, from a synchronous        *)
(* response or from a webhook, the normalizer returns an AttemptStatus and never *)
(* an error.                                                                     *)
C3_NormalizerNeverErrs ==
    /\ Handled("AdyenPaymentResponse")
       => get_adyen_payment_status(is_manual_capture, inflight[1].result_code, pmt)
            \in AttemptStatus
    /\ Handled("AdyenWebhookResource")
       => outcome # "WebhookBodyDecodingFailed"

(* C3 amended: the synchronous normalizers (Adyen result code, Bank of America   *)
(* status) return an AttemptStatus for every input; the Adyen webhook-status     *)
(* normalizer returns an AttemptStatus for every webhook status except           *)
(* UnexpectedEvent and Reversed, for which it returns WebhookBodyDecodingFailed. *)
C3_NormalizerTotalExceptUnexpected ==
    /\ Handled("AdyenPaymentResponse")
       => \/ outcome = "Ok" /\ status \in AttemptStatus
          \/ /\ inflight[1].shape = "QrCodeResponse" /\ ~inflight[1].qr_image_ok
             /\ outcome = "ResponseHandlingFailed"
    /\ Handled("BoaPaymentsResponse") => outcome = "Ok" /\ status \in AttemptStatus
    /\ Handled("AdyenWebhookResource")
       => IF InflightResource.status \in {"UnexpectedEvent", "Reversed"}
          THEN outcome = "WebhookBodyDecodingFailed"
          ELSE outcome = "Ok" /\ status \in AttemptStatus

C3_Witness ==
    /\ Handled("AdyenWebhookResource")
    /\ InflightResource.status = "UnexpectedEvent"
    /\ outcome = "WebhookBodyDecodingFailed"

(* the Bank of America status of a client-reference response in flight *)
HandledBoaStatus ==
    Handled("BoaPaymentsResponse") /\ inflight[1].variant = "ClientReferenceInformation"

(* C4 as claimed: for every connector status other than an "authorized" one     *)
(* (Adyen Authorised, Bank of America Authorized / AuthorizedPendingReview) a   *)
(* normalizer returns the same AttemptStatus under manual and automatic capture.*)
C4_CaptureModeOnlyForAuthorized ==
    /\ (Handled("AdyenPaymentResponse") /\ inflight[1].result_code # "Authorised")
       => get_adyen_payment_status(TRUE, inflight[1].result_code, pmt)
            = get_adyen_payment_status(FALSE, inflight[1].result_code, pmt)
    /\ (Handled("AdyenWebhookResource") /\ InflightResource.status # "Authorised")
       => webhook_status_to_attempt_status(TRUE, InflightResource.status)
            = webhook_status_to_attempt_status(FALSE, InflightResource.status)
    /\ (HandledBoaStatus
        /\ inflight[1].status \notin {"Authorized", "AuthorizedPendingReview"})
       => boa_status_to_attempt_status(inflight[1].status, TRUE)
            = boa_status_to_attempt_status(inflight[1].status, FALSE)

(* C4 amended: manual and automatic capture differ only for an "authorized"     *)
(* connector status and, in the Bank of America normalizer, for Pending, which  *)
(* is Charged under automatic capture and Pending under manual capture; for     *)
(* every other connector status the normalizer returns the same AttemptStatus   *)
(* under both capture modes, and that is the status written to the attempt.     *)
C4_CaptureModeOnlyForAuthorizedOrBoaPending ==
    /\ (Handled("AdyenPaymentResponse") /\ inflight[1].result_code # "Authorised")
       => /\ get_adyen_payment_status(TRUE, inflight[1].result_code, pmt)
               = get_adyen_payment_status(FALSE, inflight[1].result_code, pmt)
          /\ outcome = "Ok"
               => status = get_adyen_payment_status(TRUE, inflight[1].result_code, pmt)
    /\ (Handled("AdyenWebhookResource") /\ InflightResource.status # "Authorised")
       => webhook_status_to_attempt_status(TRUE, InflightResource.status)
            = webhook_status_to_attempt_status(FALSE, InflightResource.status)
    /\ (HandledBoaStatus
        /\ inflight[1].status \notin {"Authorized", "AuthorizedPendingReview", "Pending"})
       => /\ boa_status_to_attempt_status(inflight[1].status, TRUE)
               = boa_status_to_attempt_status(inflight[1].status, FALSE)
          /\ status = boa_status_to_attempt_status(inflight[1].status, TRUE)
    /\ (HandledBoaStatus /\ inflight[1].status = "Pending")
       => status = IF boa_auto_capture(inflight[1].flow, is_manual_capture)
                   THEN "Charged" ELSE "Pending"

C4_Witness ==
    /\ HandledBoaStatus
    /\ inflight[1].status = "Pending"
    /\ inflight[1].flow = "Authorize"
    /\ ~is_manual_capture
    /\ status = "Charged"

(* a declined payment: Adyen result code Refused or Error, an Adyen Authorisation *)
(* webhook that did not succeed, or a Bank of America declined status             *)
DeclineHandled ==
    \/ /\ Handled("AdyenPaymentResponse")
       /\ inflight[1].result_code \in {"Refused", "Error"}
       /\ inflight[1].qr_image_ok
    \/ /\ Handled("AdyenWebhookResource")
       /\ inflight[1].event_code = "AUTHORISATION"
       /\ inflight[1].success # "true"
    \/ /\ HandledBoaStatus
       /\ inflight[1].status \in {"Failed", "Declined", "Rejected", "AuthorizedRiskDeclined"}

(* C5: a structurally valid response that reports a decline is not raised as an *)
(* error: the parse returns Ok, the attempt status is Failure and an            *)
(* ErrorResponse is present.                                                     *)
C5_DeclineIsOkFailureWithError ==
    DeclineHandled => outcome = "Ok" /\ status = "Failure" /\ is_some(response.err)

C5_Witness ==
    /\ Handled("AdyenPaymentResponse")
    /\ inflight[1].shape = "Response"
    /\ inflight[1].result_code = "Refused"
    /\ is_none(inflight[1].refusal_reason)
    /\ is_none(inflight[1].refusal_reason_code)
    /\ outcome = "Ok" /\ status = "Failure" /\ is_some(response.err)

(* the parse of the message in flight produced an ErrorResponse *)
ErrorProduced ==
    /\ is_some(inflight) /\ handled
    /\ inflight[1].kind \in {"AdyenPaymentResponse", "AdyenWebhookResource",
                              "BoaPaymentsResponse"}
    /\ outcome = "Ok"
    /\ is_some(response.err)

(* the connector fields holding the error code and the error message *)
SuppliedCode ==
    CASE inflight[1].kind = "AdyenPaymentResponse" -> inflight[1].refusal_reason_code
      [] inflight[1].kind = "AdyenWebhookResource" -> None
      [] inflight[1].kind = "BoaPaymentsResponse" ->
            IF inflight[1].variant = "ErrorInformation"
            THEN inflight[1].error_information.reason
            ELSE IF is_some(inflight[1].error_information)
            THEN inflight[1].error_information[1].reason ELSE None
      [] OTHER -> None

SuppliedMessage ==
    CASE inflight[1].kind = "AdyenPaymentResponse" -> inflight[1].refusal_reason
      [] inflight[1].kind = "AdyenWebhookResource" -> inflight[1].reason
      [] inflight[1].kind = "BoaPaymentsResponse" ->
            IF inflight[1].variant = "ErrorInformation"
            THEN inflight[1].error_information.message
            ELSE IF is_some(inflight[1].error_information)
            THEN inflight[1].error_information[1].message ELSE None
      [] OTHER -> None

CodeSource == SuppliedCode

MessageSource ==
    CASE inflight[1].kind = "BoaPaymentsResponse" -> SuppliedCode
      [] inflight[1].kind = "AdyenWebhookResource" ->
            IF inflight[1].success = "true" THEN None ELSE inflight[1].reason
      [] OTHER -> SuppliedMessage

(* C6 amended: every ErrorResponse a parser produces has its code and message    *)
(* populated from the connector field the parser reads (Adyen refusalReasonCode  *)
(* and refusalReason, the reason of an unsuccessful notification for the message *)
(* of an Adyen webhook whose code is never supplied, Bank of America             *)
(* errorInformation.reason for both): the sentinel when that field is absent     *)
(* (or the notification's success flag is "true"), the connector's value         *)
(* unchanged otherwise, hence empty only when the connector sent an empty        *)
(* string.  The code of Adyen's redirection-error parser is outside this         *)
(* statement: it is the text of the normalized attempt status, never read from   *)
(* the connector.                                                                *)
RedirectionErrorHandled ==
    Handled("AdyenPaymentResponse") /\ inflight[1].shape = "RedirectionErrorResponse"

UnrecognisedEventCodes == { "REPORT_AVAILABLE", "OFFER_CLOSED" }

(* C8: webhook event classification is total: every raw event code, with any     *)
(* success flag and any dispute sub-status, is classified as one canonical       *)
(* IncomingWebhookEvent, never an error, and an unrecognised event code is       *)
(* classified as EventNotSupported.                                              *)
C8_ClassificationTotal ==
    Handled("AdyenWebhookEvent") =>
        /\ outcome = "Ok"
        /\ event \in IncomingWebhookEvent
        /\ inflight[1].event_code \in UnrecognisedEventCodes => event = "EventNotSupported"

C8_Witness ==
    /\ Handled("AdyenWebhookEvent")
    /\ inflight[1].event_code = "REPORT_AVAILABLE"
    /\ inflight[1].success = "true"
    /\ inflight[1].dispute_status = Some("Won")
    /\ event = "EventNotSupported"

DisputeEventCodes ==
    { "NOTIFICATION_OF_CHARGEBACK", "CHARGEBACK", "CHARGEBACK_REVERSED",
      "SECOND_CHARGEBACK", "PREARBITRATION_WON", "PREARBITRATION_LOST" }

(* the event the classifier gives the code in flight under another success flag *)
EventUnderFlag(flag) ==
    get_adyen_webhook_event(deserialize_event_code(inflight[1].event_code), flag,
                            inflight[1].dispute_status)

(* C9 as claimed: for every recognised non-dispute event code the canonical      *)
(* event is chosen by the success flag: success and failure give different       *)
(* events.                                                                       *)
C9_FlagDecidesEveryNonDisputeCode ==
    (/\ Handled("AdyenWebhookEvent")
     /\ inflight[1].event_code \notin DisputeEventCodes \cup UnrecognisedEventCodes)
    => /\ event = EventUnderFlag(inflight[1].success)
       /\ EventUnderFlag("true") # EventUnderFlag("false")

FlagEventCodes == { "AUTHORISATION", "REFUND", "CANCEL_OR_REFUND", "CANCELLATION", "CAPTURE" }

SuccessEvent(raw) ==
    CASE raw = "AUTHORISATION" -> "PaymentIntentSuccess"
      [] raw \in {"REFUND", "CANCEL_OR_REFUND"} -> "RefundSuccess"
      [] raw = "CANCELLATION" -> "PaymentIntentCancelled"
      [] raw = "CAPTURE" -> "PaymentIntentCaptureSuccess"

FailureEvent(raw) ==
    CASE raw = "AUTHORISATION" -> "PaymentIntentFailure"
      [] raw \in {"REFUND", "CANCEL_OR_REFUND"} -> "RefundFailure"
      [] raw = "CANCELLATION" -> "PaymentIntentCancelFailure"
      [] raw = "CAPTURE" -> "PaymentIntentCaptureFailure"

(* C9 amended: for the event codes Authorisation, Refund, CancelOrRefund,        *)
(* Cancellation and Capture the canonical event is chosen by the success flag    *)
(* (the success event exactly when the flag is "true", the failure event for     *)
(* every other value); every other non-dispute code (CaptureFailed,              *)
(* RefundFailed, RefundReversed, the payout codes, an unrecognised code) is      *)
(* classified as one fixed event whatever the flag.                              *)
C9_FlagDecidesFlaggedCodes ==
    /\ (Handled("AdyenWebhookEvent") /\ inflight[1].event_code \in FlagEventCodes)
       => event = IF inflight[1].success = "true"
                  THEN SuccessEvent(inflight[1].event_code)
                  ELSE FailureEvent(inflight[1].event_code)
    /\ (/\ Handled("AdyenWebhookEvent")
        /\ inflight[1].event_code \notin FlagEventCodes \cup DisputeEventCodes)
       => \A f \in SuccessFlags : event = EventUnderFlag(f)

C9_Witness ==
    /\ Handled("AdyenWebhookEvent")
    /\ inflight[1].event_code = "CAPTURE"
    /\ inflight[1].success = "True"
    /\ event = "PaymentIntentCaptureFailure"

(* the dispute sub-statuses the classifier names for a dispute event code *)
ExplicitSubStatus(raw) ==
    CASE raw = "CHARGEBACK" -> { "Won", "Lost" }
      [] raw \in {"CHARGEBACK_REVERSED", "PREARBITRATION_WON"} -> { "Pending" }
      [] OTHER -> {}

SubStatusEventCodes == { "CHARGEBACK", "CHARGEBACK_REVERSED", "PREARBITRATION_WON" }

(* a dispute notification whose sub-status is present and not named for its code *)
UnmappedSubStatusHandled ==
    /\ Handled("AdyenWebhookEvent")
    /\ inflight[1].event_code \in SubStatusEventCodes
    /\ is_some(inflight[1].dispute_status)
    /\ inflight[1].dispute_status[1] \notin ExplicitSubStatus(inflight[1].event_code)

(* C10 as claimed: for every dispute event code classified by sub-status, a      *)
(* sub-status with no explicit mapping for that code is classified as            *)
(* DisputeOpened, never DisputeWon or DisputeLost.                               *)
C10_UnmappedSubStatusIsOpened ==
    UnmappedSubStatusHandled => event = "DisputeOpened"

(* C10 amended: for Chargeback a sub-status other than Won and Lost is           *)
(* classified as DisputeOpened; for ChargebackReversed and PrearbitrationWon     *)
(* every sub-status other than Pending, and an absent one, is classified as      *)
(* DisputeWon.                                                                   *)
C10_UnmappedSubStatusOpenedOnlyForChargeback ==
    /\ (UnmappedSubStatusHandled /\ inflight[1].event_code = "CHARGEBACK")
       => event = "DisputeOpened"
    /\ (/\ Handled("AdyenWebhookEvent")
        /\ inflight[1].event_code \in {"CHARGEBACK_REVERSED", "PREARBITRATION_WON"}
        /\ inflight[1].dispute_status # Some("Pending"))
       => event = "DisputeWon"

C10_Witness ==
    /\ Handled("AdyenWebhookEvent")
    /\ inflight[1].event_code = "CHARGEBACK"
    /\ inflight[1].dispute_status = Some("Undefended")
    /\ event = "DisputeOpened"

(* C11: an Adyen Chargeback webhook with dispute sub-status Won is classified    *)
(* DisputeWon; with sub-status Lost, or with no sub-status, it is classified     *)
(* DisputeLost.                                                                  *)
C11_ChargebackWonLost ==
    (Handled("AdyenWebhookEvent") /\ inflight[1].event_code = "CHARGEBACK")
    => /\ inflight[1].dispute_status = Some("Won") => event = "DisputeWon"
       /\ inflight[1].dispute_status \in {Some("Lost"), None} => event = "DisputeLost"

C11_Witness ==
    /\ Handled("AdyenWebhookEvent")
    /\ inflight[1].event_code = "CHARGEBACK"
    /\ inflight[1].dispute_status = None
    /\ event = "DisputeLost"


----------------------------------------------------------------------------
(* Properties of the request transformers *)

(* the Result the transformer returned for the item in flight *)
Result == request[1]

ReachedMapper ==
    /\ inflight[1].mandate_reference_id = None
    /\ ~(Result.ok = FALSE /\ Result.err = "MissingRequiredField"
                           /\ Result.field_name = "customer_id")

(* C13: mapping the bank-debit scheme Becs on the Adyen mapper returns a         *)
(* NotImplemented error that identifies Becs as the payment method.              *)
C13_BecsNotImplementedNamesBecs ==
    (/\ Handled("Authorize")
     /\ connector = "Adyen"
     /\ inflight[1].pmd = "BankDebit"
     /\ inflight[1].variant = "BecsBankDebit"
     /\ ReachedMapper)
        => /\ ~Result.ok
           /\ Result.err = "NotImplemented"
           /\ "BecsBankDebit" \in Result.message


(* the fields each scheme requires, in the order its mapper checks them, each    *)
(* with the name the error is to carry                                           *)
RequiredFields(connector_name, variant) ==
    LET email    == <<"email", "email">>
        name     == <<"billing.first_name", "billing.first_name, billing.last_name">>
        phone    == <<"billing.phone", "billing.phone">>
        billing  == <<"billing", "billing">>
        shipping == <<"shipping", "shipping">>
    IN  CASE connector_name = "Stripe" ->
                <<<<"name", "shipping.address.first_name">>, <<"line1", "shipping.address.line1">>,
                  <<"country", "shipping.address.country">>, <<"zip", "shipping.address.zip">>>>
          [] variant = "KlarnaRedirect" ->
                <<email, <<"customer_id", "customer_id">>, <<"country", "billing.country">>>>
          [] variant = "AffirmRedirect" -> <<email, name, phone, billing>>
          [] variant = "AfterpayClearpayRedirect" ->
                <<email, name, shipping, billing, <<"country", "country">>>>
          [] variant = "PayBrightRedirect" ->
                <<name, phone, email, billing, shipping, <<"country", "billing.country">>>>
          [] variant = "WalleyRedirect" -> <<phone, email>>
          [] variant = "AlmaRedirect" -> <<phone, email, billing, shipping>>
          [] variant = "AtomeRedirect" -> <<email, name, phone, billing>>

(* is the field absent from the item *)
FieldAbsent(item, field) ==
    CASE connector = "Stripe" -> field \notin item.shipping_address
      [] field = "customer_id" -> item.customer_id = None
      [] field = "country" -> item.country = None
      [] OTHER -> field \notin item.present

(* the mapper's result is MissingRequiredField naming the first absent field of  *)
(* the scheme's list, and Ok when none is absent                                 *)
FirstMissingFieldNamed(required) ==
    LET missing == { i \in DOMAIN required : FieldAbsent(inflight[1], required[i][1]) }
    IN  IF missing = {} THEN Result.ok
        ELSE LET first == CHOOSE i \in missing : \A j \in missing : i <= j
             IN  Result = MissingRequiredField(required[first][2])

(* C14: when a field required by a payment scheme is absent, the mapper fails    *)
(* with MissingRequiredField carrying the name of the first missing field in     *)
(* check order (Adyen pay-later schemes, Stripe Afterpay/Clearpay shipping       *)
(* address).                                                                     *)
C14_FirstMissingFieldNamed ==
    /\ (/\ Handled("Authorize")
        /\ connector = "Adyen"
        /\ inflight[1].pmd = "PayLater"
        /\ inflight[1].variant # "KlarnaSdk"
        /\ ReachedMapper)
           => FirstMissingFieldNamed(RequiredFields("Adyen", inflight[1].variant))
    /\ (/\ Handled("Authorize")
        /\ connector = "Stripe"
        /\ inflight[1].pmd = "PayLater"
        /\ inflight[1].variant = "AfterpayClearpayRedirect"
        /\ inflight[1].payment_method_type = Some("AfterpayClearpay")
        /\ inflight[1].payment_experience = Some("RedirectToUrl"))
           => FirstMissingFieldNamed(RequiredFields("Stripe", inflight[1].variant))


(* C15: a card whose network has no connector brand in the lookup table          *)
(* (Interac) makes the card mapping report the network as unsupported (unless a  *)
(* required field is reported missing first); the request is never built with   *)
(* the brand dropped.                                                            *)
C15_UnmappedNetworkUnsupported ==
    (/\ Handled("Authorize")
     /\ connector \in {"Adyen", "Bankofamerica"}
     /\ inflight[1].pmd = "Card"
     /\ inflight[1].card_network = Some("Interac")
     /\ ReachedMapper)
        => /\ ~Result.ok
           /\ Result.err \in {"NotSupported", "NotImplemented", "MissingRequiredField"}


(* the split instructions carried by the item in flight, if any are Adyen's *)
SplitInstructions ==
    LET item == inflight[1]
        split == IF item.kind = "Refund" THEN item.split_refunds ELSE item.split_payments
    IN  IF is_some(split) /\ split[1].kind \in {"AdyenSplitPayment", "AdyenSplitRefund"}
        THEN split
        ELSE None

(* the store and splits fields a serialized request carries: a field the request *)
(* type does not have is absent                                                  *)
StoreAndSplits(built) ==
    IF {"store", "splits"} \subseteq DOMAIN built THEN <<built.store, built.splits>>
    ELSE <<None, None>>

(* splits is the one-to-one translation of split_items *)
OneToOne(split_items, currency, splits) ==
    /\ is_some(splits)
    /\ Len(splits[1]) = Len(split_items)
    /\ \A i \in DOMAIN split_items :
          /\ splits[1][i].amount =
                (IF is_some(split_items[i].amount)
                 THEN Some([currency |-> currency, value |-> split_items[i].amount[1]])
                 ELSE None)
          /\ splits[1][i].reference = split_items[i].reference
          /\ splits[1][i].split_type = split_items[i].split_type
          /\ splits[1][i].account = split_items[i].account
          /\ splits[1][i].description = split_items[i].description

(* C16: split-payment instructions present on the attempt are translated         *)
(* one-to-one into the store and splits fields of the Adyen authorize request,   *)
(* capture request and refund request alike.                                     *)
C16_SplitsOnAuthorizeCaptureRefund ==
    (/\ is_some(inflight) /\ handled
     /\ connector = "Adyen"
     /\ inflight[1].kind \in {"Authorize", "Capture", "Refund"}
     /\ is_some(SplitInstructions)
     /\ Result.ok)
        => /\ StoreAndSplits(Result)[1] = SplitInstructions[1].store
           /\ OneToOne(SplitInstructions[1].split_items, inflight[1].currency,
                       StoreAndSplits(Result)[2])


(* C17: encoding split data {store, split_items} to the Adyen wire form          *)
(* (get_adyen_split_request) and decoding that wire form back                    *)
(* (construct_charge_response) yields the same store and the same split items,   *)
(* in the same order.                                                            *)
C17_SplitDataRoundTrip ==
    Handled("AdyenSplitsResponse") =>
        /\ is_some(response.ok)
        /\ is_some(response.ok[1].charges)
        /\ response.ok[1].charges[1].store = inflight[1].data.store
        /\ response.ok[1].charges[1].split_items = inflight[1].data.split_items

C17_Witness ==
    /\ Handled("AdyenSplitsResponse")
    /\ is_some(inflight[1].data.store)
    /\ Len(inflight[1].data.split_items) = MaxSplitItems
    /\ is_some(inflight[1].data.split_items[1].amount)
    /\ is_some(inflight[1].data.split_items[1].description)
    /\ inflight[1].data.split_items[2].amount = None
    /\ is_some(response.ok[1].charges)


(* an Adyen authorize request with setup_future_usage = OffSession and no        *)
(* existing mandate has been transformed                                         *)
OffSessionWithoutMandate ==
    /\ Handled("Authorize")
    /\ connector = "Adyen"
    /\ inflight[1].setup_future_usage = Some("OffSession")
    /\ inflight[1].mandate_reference_id = None

(* C18 as claimed: with setup_future_usage = OffSession and no mandate, for any  *)
(* off_session value, the request carries UnscheduledCardOnFile and              *)
(* store_payment_method = true.                                                  *)
C18_OffSessionStoresPaymentMethod ==
    (OffSessionWithoutMandate /\ Result.ok) =>
        /\ Result.recurring_processing_model = Some("UnscheduledCardOnFile")
        /\ Result.store_payment_method = Some(TRUE)

(* C18: with setup_future_usage = OffSession and no mandate, for any off_session *)
(* value, a built card, network-token, wallet, pay-later, bank-debit or          *)
(* bank-redirect request carries UnscheduledCardOnFile and store_payment_method  *)
(* equal to is_mandate_payment; a voucher request carries the model only; a      *)
(* bank-transfer, gift-card or card-redirect request carries neither; without a  *)
(* customer id the first two groups build no request.                            *)
C18_OffSessionRecurringFields ==
    OffSessionWithoutMandate =>
        LET item == inflight[1]
            without_recurring == item.pmd \in {"BankTransfer", "GiftCard", "CardRedirect"}
        IN  /\ (item.customer_id = None /\ ~without_recurring) => ~Result.ok
            /\ Result.ok =>
                 CASE without_recurring ->
                        /\ Result.recurring_processing_model = None
                        /\ Result.store_payment_method = None
                   [] item.pmd = "Voucher" ->
                        /\ Result.recurring_processing_model = Some("UnscheduledCardOnFile")
                        /\ Result.store_payment_method = None
                   [] OTHER ->
                        /\ Result.recurring_processing_model = Some("UnscheduledCardOnFile")
                        /\ Result.store_payment_method = Some(item.is_mandate_payment)

C18_Witness ==
    /\ OffSessionWithoutMandate
    /\ inflight[1].pmd = "Card"
    /\ inflight[1].off_session = Some(FALSE)
    /\ ~inflight[1].is_mandate_payment
    /\ Result.ok
    /\ Result.store_payment_method = Some(FALSE)


(* C19: get_recurring_processing_model called with setup_future_usage =          *)
(* OffSession and no existing mandate, for a customer, returns the triple        *)
(* (UnscheduledCardOnFile, store_payment_method = is_mandate_payment,            *)
(* Some(shopper_reference)), the reference being merchant id "_" customer id;    *)
(* the bank-debit, bank-redirect and wallet requests carry that triple.          *)
C19_OffSessionRecurringDetails ==
    (OffSessionWithoutMandate /\ is_some(inflight[1].customer_id)) =>
        LET item == inflight[1]
            details == get_recurring_processing_model(item)
            shopper_reference == <<item.merchant_id, "_", item.customer_id[1]>>
        IN  /\ details.ok
            /\ details.recurring_processing_model = Some("UnscheduledCardOnFile")
            /\ details.store_payment_method = Some(item.is_mandate_payment)
            /\ details.shopper_reference = Some(shopper_reference)
            /\ (Result.ok /\ item.pmd \in {"BankDebit", "BankRedirect", "Wallet"}) =>
                  /\ Result.recurring_processing_model = details.recurring_processing_model
                  /\ Result.store_payment_method = details.store_payment_method
                  /\ Result.shopper_reference = details.shopper_reference

C19_Witness ==
    /\ OffSessionWithoutMandate
    /\ inflight[1].pmd = "BankDebit"
    /\ inflight[1].is_mandate_payment
    /\ Result.ok
    /\ Result.store_payment_method = Some(TRUE)
    /\ Result.shopper_reference = Some(<<"merchant", "_", "cust">>)


(* an Adyen authorize request with an existing mandate id has been built *)
BuiltWithMandate ==
    /\ Handled("Authorize")
    /\ connector = "Adyen"
    /\ is_some(inflight[1].mandate_reference_id)
    /\ Result.ok

(* the request was built by the mandate transformer: its payment method is the   *)
(* stored mandate, or the card / network token with its network transaction id   *)
MandatePathTaken ==
    Result.payment_method =
        (CASE inflight[1].mandate_reference_id = Some("ConnectorMandateId") ->
                "AdyenMandatePaymentMethod"
           [] inflight[1].mandate_reference_id = Some("NetworkMandateId") -> "AdyenCard"
           [] inflight[1].mandate_reference_id = Some("NetworkTokenWithNTI") -> "NetworkToken")

(* C20 as claimed: with an existing mandate id the mandate path is taken and the *)
(* built request carries no recurring processing model, for every value of       *)
(* setup_future_usage and off_session.                                           *)
C20_MandateCarriesNoRecurringModel ==
    BuiltWithMandate =>
        /\ MandatePathTaken
        /\ Result.recurring_processing_model = None

(* C20: with an existing mandate id the mandate path is taken and the built      *)
(* request carries the recurring processing model get_recurring_processing_model *)
(* returns: UnscheduledCardOnFile when setup_future_usage is OffSession or       *)
(* off_session is true, none otherwise.                                          *)
C20_MandateCarriesRecurringModel ==
    BuiltWithMandate =>
        /\ MandatePathTaken
        /\ Result.recurring_processing_model =
              (IF \/ inflight[1].setup_future_usage = Some("OffSession")
                  \/ inflight[1].off_session = Some(TRUE)
               THEN Some("UnscheduledCardOnFile")
               ELSE None)

C20_Witness ==
    /\ BuiltWithMandate
    /\ inflight[1].pmd = "Card"
    /\ inflight[1].mandate_reference_id = Some("ConnectorMandateId")
    /\ inflight[1].setup_future_usage = Some("OnSession")
    /\ inflight[1].off_session = Some(TRUE)
    /\ Result.payment_method = "AdyenMandatePaymentMethod"
    /\ Result.recurring_processing_model = Some("UnscheduledCardOnFile")


(* an Adyen authorize request has been built and carries browser information *)
BrowserInfoAttached ==
    /\ Handled("Authorize")
    /\ connector = "Adyen"
    /\ Result.ok
    /\ is_some(Result.browser_info)

(* C21 as claimed: browser information is attached to an authorize request only  *)
(* when the auth type is 3DS, the method is a bank redirect, or the wallet type  *)
(* needs device fingerprinting (GoPay, Google Pay).                              *)
C21_BrowserInfoOnlyWhenRequired ==
    BrowserInfoAttached =>
        \/ inflight[1].auth_type = "ThreeDs"
        \/ inflight[1].pmd = "BankRedirect"
        \/ inflight[1].payment_method_type \in {Some("GoPay"), Some("GooglePay")}

(* C21: browser information is attached to an authorize request only when the   *)
(* auth type is 3DS, the method is a card or a bank redirect, or the payment     *)
(* method type is GoPay or Google Pay; every other request carries none.         *)
C21_BrowserInfoOnlyForListedFlows ==
    BrowserInfoAttached =>
        \/ inflight[1].auth_type = "ThreeDs"
        \/ inflight[1].pmd \in {"Card", "NetworkToken"}
        \/ inflight[1].pmd = "BankRedirect"
        \/ inflight[1].payment_method_type \in {Some("GoPay"), Some("GooglePay")}

C21_Witness ==
    /\ BrowserInfoAttached
    /\ inflight[1].pmd = "Card"
    /\ inflight[1].auth_type = "NoThreeDs"
    /\ inflight[1].payment_method_type = None


(* what get_webhook_response returns for the webhook resource in flight *)
ParsedWebhook ==
    get_webhook_response(AdyenWebhookResource(inflight[1]), is_manual_capture,
                         inflight[1].is_multiple_capture_psync_flow, HttpCode)

(* C22: a webhook-delivered response parsed during the sync of an order with     *)
(* multiple partial captures yields a list-of-captures response, every entry     *)
(* keyed by the connector capture id, instead of a single transaction response;  *)
(* outside that flow it yields a single transaction response.                    *)
C22_MultipleCaptureSyncResponse ==
    (Handled("AdyenWebhookResource") /\ outcome = "Ok") =>
        /\ ParsedWebhook.ok
        /\ is_none(ParsedWebhook.error) => response = ResponseOk(ParsedWebhook.data)
        /\ IF inflight[1].is_multiple_capture_psync_flow
           THEN /\ ParsedWebhook.data.kind = "MultipleCaptureResponse"
                /\ \A capture \in ParsedWebhook.data.captures :
                      capture.capture_id = inflight[1].psp_reference
                /\ is_capture_response(AdyenWebhookResource(inflight[1]))
                      => ParsedWebhook.data.captures # {}
           ELSE ParsedWebhook.data = TransactionResponse

C22_Witness ==
    /\ Handled("AdyenWebhookResource")
    /\ inflight[1].is_multiple_capture_psync_flow
    /\ inflight[1].event_code = "CAPTURE"
    /\ inflight[1].success = "true"
    /\ is_some(response.ok)
    /\ response.ok[1].kind = "MultipleCaptureResponse"
    /\ \E capture \in response.ok[1].captures :
          capture.capture_id = "psp_1" /\ capture.status = "Charged"


(* a failed Bank of America payment response has been normalized into an        *)
(* ErrorResponse                                                                *)
BoaErrorNormalized ==
    /\ Handled("BoaPaymentsResponse")
    /\ inflight[1].variant = "ClientReferenceInformation"
    /\ is_some(response.err)

(* the sources of the reason that the response in flight carries: the primary    *)
(* message, the field-level detail list, the risk/AVS rules                      *)
ReasonSources ==
    LET error_information == inflight[1].error_information
        risk_information == inflight[1].risk_information
    IN  [message |-> IF is_some(error_information) THEN error_information[1].message ELSE None,
         details |-> IF is_some(error_information) THEN error_information[1].details ELSE None,
         rules |-> IF is_some(risk_information) THEN risk_information[1].rules ELSE None]

(* C23: the error normalizer's composed reason is None exactly when the primary  *)
(* message, the field-level detail list and the risk/AVS annotations are all     *)
(* absent; when any of them is present the reason is Some.                       *)
C23_ReasonNoneIffAllSourcesAbsent ==
    BoaErrorNormalized =>
        (response.err[1].reason = None
            <=> /\ ReasonSources.message = None
                /\ ReasonSources.details = None
                /\ ReasonSources.rules = None)

----------------------------------------------------------------------------
(* C30: each defence document carries the file type supplied for its own    *)
(* evidence file: the document built from shipping_documentation carries    *)
(* shipping_documentation_file_type and the one built from receipt carries  *)
(* receipt_file_type.                                                       *)

\* the position, among the documents built, of the one made from evidence file number i
DocumentIndex(item, i) == Cardinality({ j \in 1..i : is_some(item[EvidenceFiles[j]]) })

C30_DocumentCarriesOwnFileType ==
    (Handled("SubmitEvidence") /\ Result.ok) =>
        \A i \in 1..Len(EvidenceFiles) :
            is_some(inflight[1][EvidenceFiles[i]]) =>
                Result.defense_documents[DocumentIndex(inflight[1], i)].content_type
                    = inflight[1][file_type_field(EvidenceFiles[i])]

----------------------------------------------------------------------------
(* C26: in MockDb, under any interleaving of insert_payment_intent calls,   *)
(* every stored payment intent has a distinct id, and the id is the number  *)
(* of intents that were stored before it was inserted.                      *)

C26_InsertIdsAreLengths ==
    /\ \A i \in 1..Len(payment_intents) : payment_intents[i].id = i - 1
    /\ \A i, j \in 1..Len(payment_intents) :
          payment_intents[i].id = payment_intents[j].id => i = j

\* two callers asked for an insert while the Vec was empty, and both are stored
C26_Witness ==
    /\ Len(payment_intents) = 2
    /\ \A c \in Callers : callers[c].calls = 1 /\ callers[c].op = "insert"
                          /\ callers[c].returned = "Ok"

----------------------------------------------------------------------------
(* C25: when two callers read the same stored payment intent from MockDb    *)
(* and each then calls update_payment_intent with an update to a different  *)
(* field, the stored intent afterwards reflects both updates, whichever     *)
(* call ran first.                                                          *)

\* the caller's last call was an update, passed the intent it had read, and has returned
Updated(c, kind) ==
    /\ callers[c].pc = "idle" /\ callers[c].op = "update" /\ callers[c].returned = "Ok"
    /\ callers[c].update[1].kind = kind

C25_BothUpdatesReflected ==
    \A c1, c2 \in Callers :
        (/\ Updated(c1, "MetadataUpdate") /\ Updated(c2, "PGStatusUpdate")
         /\ callers[c1].this = callers[c2].this)
        => LET stored == payment_intents[find_by_id(payment_intents, callers[c1].this[1].id)]
           IN  stored.metadata = Some("meta") /\ stored.status = "Processing"

----------------------------------------------------------------------------
(* C27: when source_verified is false, recovery_incoming_webhook_flow       *)
(* returns WebhookAuthenticationFailed, and it has neither fetched nor      *)
(* created a payment intent or a payment attempt nor inserted a             *)
(* process-tracker task.                                                    *)

C27_UnverifiedSourceTouchesNothing ==
    \A w \in Webhooks :
        ~flows[w].source_verified =>
            /\ flows[w].pc \in {"start", "returned"}
            /\ flows[w].pc = "returned" => flows[w].result = "WebhookAuthenticationFailed"
            /\ flows[w].calls = {}
            /\ \A i \in intents : i.payment_id # w
            /\ \A a \in attempts : a.attempt_id # w

\* an unverified webhook has returned while a verified one for the same
\* invoice went on to create the intent and to insert the task
C27_Witness ==
    /\ ~flows[1].source_verified /\ flows[1].pc = "returned"
    /\ flows[2].source_verified /\ flows[2].result = "Payment"
    /\ flows[1].merchant_reference_id = flows[2].merchant_reference_id
    /\ process_tracker # {}

----------------------------------------------------------------------------
(* C24: for any interleaving of two recovery webhooks that carry the same   *)
(* merchant reference id while no payment intent exists for it yet, at most *)
(* one payment intent is created for that merchant reference id.            *)

C24_OneIntentPerMerchantReference ==
    \A i, j \in intents :
        i.merchant_reference_id = j.merchant_reference_id => i = j

----------------------------------------------------------------------------
(* C28: whichever recovery action the event type and the attempt's trigger  *)
(* source give (CancelInvoice, ScheduleFailedPayment,                       *)
(* SuccessPaymentExternal, PendingPayment, NoAction, InvalidAction),        *)
(* recovery_incoming_webhook_flow returns Ok or Err; it never panics.       *)

C28_FlowNeverPanics == \A w \in Webhooks : flows[w].pc # "panicked"

----------------------------------------------------------------------------
(* C29: in the on_message loop every decodable invalidation message that is *)
(* received leads to the invalidation of the matching in-memory cache entry *)
(* (config or accounts), also after an earlier message was undecodable or   *)
(* an earlier Redis key deletion failed.                                    *)

\* the loop holds the received message and has not yet worked on it
Received(value) == subscriber.pc = "received" /\ subscriber.message = Some(value)

\* the loop has just invalidated the entry the message names, in the cache it names
Invalidated(value) ==
    /\ subscriber.pc = "delete_key" /\ subscriber.message = Some(value)
    /\ IF value[1] = "config" THEN value[2] \notin CONFIG_CACHE
       ELSE value[2] \notin ACCOUNTS_CACHE

C29_ReceivedMessageInvalidates ==
    \A value \in {<<"config", "k1">>, <<"accounts", "k1">>} :
        Received(value) ~> Invalidated(value)

\* an entry that was cached is invalidated after the loop logged both kinds of error
C29_Witness ==
    /\ Invalidated(<<"accounts", "k1">>)
    /\ subscriber.errors = {"value_conversion_err", "delete_key"}
    /\ "k1" \in CONFIG_CACHE /\ "k1" \in redis_keys

====
